---- MODULE Spec2Model ----
(***************************************************************************)
(* Watch-party session engine: the room state manager in its two back      *)
(* ends (the in-memory RoomStore and the Supabase DatabaseService), the    *)
(* HTTP handlers of /api/rooms/[roomId] that drive them, and the viewer's  *)
(* playback reconciliation tick (VideoPlayer.syncVideo), and the client    *)
(* hook useRoom in its two revisions: Supabase channel with polling        *)
(* fallback, and EventSource with reconnection.                            *)
(***************************************************************************)
EXTENDS Integers, Sequences, FiniteSets, TLC

\* ------------------------------------------------------------------ bounds
NumUsers == 3
MaxPos == 1
MaxSyncPos == 5
MaxElapsed == 2
MaxJoins == 2
MaxAttempts == 6
\* rows of chat_messages
MaxMessages == 4
\* the limits getMessages is called with, besides the default
MaxLimit == 2
\* the greatest created_at
MaxChatTime == 2
\* calls of ChatStore.addMessage per room
MaxAdds == 102
\* timeouts of scheduleRoomCleanup pending for one room
MaxTimers == 2
\* the clock stops there
MaxNow == 3
\* fetches of refetchRoomData in flight
MaxInflight == 2
\* DatabaseService calls in progress at once
MaxCalls == 2
\* postgres_changes events on their way to the client
MaxNotifications == 2
\* updateState requests in flight
MaxRequests == 1

UserIds == 1..NumUsers
RoomIds == {"r1"}
Positions == 0..MaxPos

\* ------------------------------------------------------------ data model
\* null / undefined of a string-valued field
Null == "null"

\* Video objects as the components build them (types/index.ts Video).
\* tmdbId stands for the optional movie/TV fields (tmdbId, season, episode,
\* year) that MovieSearchPanel sets and no table column stores.
VLocal ==
  [id |-> "f1", title |-> "a.mp4", type |-> "local", url |-> "blob1",
   thumbnail |-> Null, tmdbId |-> Null]
VMovie ==
  [id |-> "movie-603", title |-> "M (1999)", type |-> "movie",
   url |-> "embed603", thumbnail |-> "poster603", tmdbId |-> "603"]
Videos == {VLocal, VMovie}
\* currentVideo: null
NoVideo ==
  [id |-> Null, title |-> Null, type |-> Null, url |-> Null,
   thumbnail |-> Null, tmdbId |-> Null]
BlobUrls == {"blob1"}

User(id, isHost) == [id |-> id, isHost |-> isHost]

VARIABLES
  backend,            \* "store": route.ts over roomStore; "db": over databaseService
  rooms,              \* RoomStore.rooms: Map roomId -> Room
  roomCleanupTimers,  \* RoomStore.roomCleanupTimers: roomIds with a pending timeout
  dbRooms,            \* table rooms: roomId -> row
  room_users,         \* table room_users: rows in ascending joined_at
  blobs,              \* media store: the blob URLs that still exist
  response            \* the last handler's HTTP response

roomVars == <<backend, rooms, roomCleanupTimers, dbRooms, room_users, blobs, response>>

\* one client's VideoPlayer component
VARIABLES
  props,          \* VideoPlayer props: video (its type), isPlaying, currentTime, isHost
  player,         \* component state: isMobile, isScrolling, isReady, youtubeRef
  element,        \* the media element / YouTube player: currentTime, paused, seeking, readyState
  sinceLastSync,  \* Date.now() - lastSyncTimeRef.current, in whole seconds, capped
  commands        \* what the last step asked of the media element

playerVars == <<props, player, element, sinceLastSync, commands>>

\* one client's useRoom hook, Supabase revision
VARIABLES
  client,    \* refs and state: mounted, inRoom (room # null), isConnected,
             \* channelRef, polling (pollingIntervalRef), pending timers, calls
  channels,  \* the channels the hook created: transport status, subscribeTimeout
  sent       \* the requests the last step of the hook sent

clientVars == <<client, channels, sent>>

\* one client's useRoom hook, EventSource revision
VARIABLES
  sse        \* eventSourceRef and its EventSource, timers, reconnection history

sseVars == <<sse>>
hookVars == <<clientVars, sseVars>>

\* the chat: table chat_messages behind DatabaseService, and ChatStore
VARIABLES
  now,            \* NOW() of the database and Date.now(), in units of TimeUnit
  chat_messages,  \* table chat_messages: rows id, room_id, created_at
  fetched,        \* the last call of getMessages: roomId, limit, the array returned
  chatStore,      \* ChatStore.messages: Map roomId -> ChatMessage[]
  added           \* per room, how many messages addMessage was called with

chatVars == <<chat_messages, fetched, chatStore, added>>

\* the RoomStore whose empty rooms live 30 seconds
VARIABLES
  rooms30,   \* RoomStore.rooms: Map roomId -> Room
  timers30,  \* per room: the timeouts that were set and neither fired nor were
             \* cleared (pending), and whether roomCleanupTimers maps the room
  streams30  \* per room and userId, the event stream of events/route.ts:
             \* "open", "aborted" (its five-minute timeout still pending), "none"

store30Vars == <<rooms30, timers30, streams30>>

\* DatabaseService calls in progress: each call is a sequence of repository
\* requests, and the requests of different calls interleave
VARIABLES
  calls      \* per call: the method, its arguments, the request it is at
             \* (pc), the rows its select returned, what it returned

\* one client's room state against the repository
VARIABLES
  snapshot,       \* the hook's room state: the Room of the last response
  fetches,        \* the GETs of refetchRoomData in flight, answered or not
  notifications,  \* postgres_changes events not yet delivered to the client
  requests,       \* the updateState POSTs in flight
  sessions        \* per user, the client: has the room open, has a connect
                  \* timer pending, has had its leave applied

concVars == <<calls, snapshot, fetches, notifications, requests, sessions>>
extVars == <<now, chatVars, store30Vars, concVars>>

\* Map.set(key, value)
MapSet(m, k, v) == [x \in (DOMAIN m) \cup {k} |-> IF x = k THEN v ELSE m[x]]
\* Map.delete(key)
MapDelete(m, k) == [x \in (DOMAIN m) \ {k} |-> m[x]]
EmptyMap == [x \in {} |-> 0]

Filter(s, Test(_)) == SelectSeq(s, Test)
Some(s, Test(_)) == \E i \in 1..Len(s) : Test(s[i])

\* cleanupError: the handler logged 'Error cleaning up blob file'
Response(action, status, hasRoom) ==
  [action |-> action, status |-> status, room |-> hasRoom, cleanupError |-> FALSE]

\* ------------------------------------------------- RoomStore (5 minutes)
\* a reset that leaves the pending timeout armed
resetCleanupTimerKeepsTimer(timers, roomId) == timers

\* RoomStore.resetCleanupTimer
resetCleanupTimer(timers, roomId) == timers \ {roomId}

\* RoomStore.scheduleRoomCleanup: clears the existing timer and arms a new one
scheduleRoomCleanup(timers, roomId) == (timers \ {roomId}) \cup {roomId}

\* RoomStore.createRoom
RoomStore_createRoom(roomId, host) ==
  /\ rooms' = MapSet(rooms, roomId,
                [currentVideo |-> NoVideo, users |-> <<host>>,
                 isPlaying |-> FALSE, currentTime |-> 0])
  /\ roomCleanupTimers' = resetCleanupTimer(roomCleanupTimers, roomId)

\* the users array after RoomStore.joinRoom: filter out the id, then push
StoreJoinUsers(users, user) ==
  Append(Filter(users, LAMBDA u : u.id # user.id), user)

\* RoomStore.joinRoom; the room must exist (the caller tests for null)
RoomStore_joinRoom(roomId, user) ==
  /\ rooms' = MapSet(rooms, roomId,
                [rooms[roomId] EXCEPT !.users = StoreJoinUsers(@, user)])
  /\ roomCleanupTimers' = resetCleanupTimer(roomCleanupTimers, roomId)

\* hasHost = users.some(u => u.isHost)
StoreHasHost(users) == Some(users, LAMBDA u : u.isHost)

\* the users array after RoomStore.leaveRoom: filter, then promote users[0]
\* when no host is left
StoreLeaveUsers(users, userId) ==
  LET rest == Filter(users, LAMBDA u : u.id # userId)
  IN IF Len(rest) > 0 /\ ~StoreHasHost(rest)
       THEN [rest EXCEPT ![1].isHost = TRUE]
       ELSE rest

\* RoomStore.leaveRoom; the room must exist
RoomStore_leaveRoom(roomId, userId) ==
  LET users == StoreLeaveUsers(rooms[roomId].users, userId)
  IN /\ rooms' = MapSet(rooms, roomId, [rooms[roomId] EXCEPT !.users = users])
     /\ roomCleanupTimers' =
          IF Len(users) = 0
            THEN scheduleRoomCleanup(roomCleanupTimers, roomId)
            ELSE resetCleanupTimer(roomCleanupTimers, roomId)

\* RoomStore.updateVideo; the room must exist
RoomStore_updateVideo(roomId, video) ==
  /\ rooms' = MapSet(rooms, roomId,
                [rooms[roomId] EXCEPT !.currentVideo = video,
                                      !.currentTime = 0,
                                      !.isPlaying = FALSE])
  /\ roomCleanupTimers' = resetCleanupTimer(roomCleanupTimers, roomId)

\* RoomStore.updateVideoState; the room must exist
RoomStore_updateVideoState(roomId, isPlaying, currentTime) ==
  /\ rooms' = MapSet(rooms, roomId,
                [rooms[roomId] EXCEPT !.isPlaying = isPlaying,
                                      !.currentTime = currentTime])
  /\ roomCleanupTimers' = resetCleanupTimer(roomCleanupTimers, roomId)

\* a join handler that takes the host flag the client sent
joinUserAsHost(userId) == User(userId, TRUE)

\* route.ts POST: the User objects the handlers build from the request
joinUser(userId) == User(userId, FALSE)
hostUser(userId) == User(userId, TRUE)

dbUnchanged == UNCHANGED <<dbRooms, room_users, blobs>>
storeUnchanged == UNCHANGED <<rooms, roomCleanupTimers>>

\* ---------------------------------- route.ts over roomStore (POST, GET)
\* the actions useRoom sends that the switch of POST has no case for
OtherActions == {"promoteUser", "demoteUser"}

\* the default branch of the switch
StorePostDefault(roomId, action) ==
  /\ backend = "store"
  /\ response' = Response(action, 400, FALSE)
  /\ UNCHANGED backend /\ dbUnchanged /\ storeUnchanged /\ UNCHANGED <<playerVars, hookVars, extVars>>

StorePostCreate(roomId, userId) ==
  /\ backend = "store"
  /\ RoomStore_createRoom(roomId, hostUser(userId))
  /\ response' = Response("create", 200, TRUE)
  /\ UNCHANGED backend /\ dbUnchanged /\ UNCHANGED <<playerVars, hookVars, extVars>>

StorePostJoin(roomId, userId) ==
  /\ backend = "store"
  /\ IF roomId \in DOMAIN rooms
       THEN /\ RoomStore_joinRoom(roomId, joinUser(userId))
            /\ response' = Response("join", 200, TRUE)
       ELSE /\ storeUnchanged
            /\ response' = Response("join", 404, FALSE)
  /\ UNCHANGED backend /\ dbUnchanged /\ UNCHANGED <<playerVars, hookVars, extVars>>

StorePostLeave(roomId, userId) ==
  /\ backend = "store"
  /\ IF roomId \in DOMAIN rooms
       THEN /\ RoomStore_leaveRoom(roomId, userId)
            /\ response' = Response("leave", 200, TRUE)
       ELSE /\ storeUnchanged
            /\ response' = Response("leave", 404, FALSE)
  /\ UNCHANGED backend /\ dbUnchanged /\ UNCHANGED <<playerVars, hookVars, extVars>>

StorePostUpdateVideo(roomId, video) ==
  /\ backend = "store"
  /\ IF roomId \in DOMAIN rooms
       THEN /\ RoomStore_updateVideo(roomId, video)
            /\ response' = Response("updateVideo", 200, TRUE)
       ELSE /\ storeUnchanged
            /\ response' = Response("updateVideo", 404, FALSE)
  /\ UNCHANGED backend /\ dbUnchanged /\ UNCHANGED <<playerVars, hookVars, extVars>>

\* the request carries no user
StorePostUpdateState(roomId, isPlaying, currentTime) ==
  /\ backend = "store"
  /\ IF roomId \in DOMAIN rooms
       THEN /\ RoomStore_updateVideoState(roomId, isPlaying, currentTime)
            /\ response' = Response("updateState", 200, TRUE)
       ELSE /\ storeUnchanged
            /\ response' = Response("updateState", 404, FALSE)
  /\ UNCHANGED backend /\ dbUnchanged /\ UNCHANGED <<playerVars, hookVars, extVars>>

StoreGetRoom(roomId) ==
  /\ backend = "store"
  /\ response' = IF roomId \in DOMAIN rooms
                   THEN Response("get", 200, TRUE)
                   ELSE Response("get", 404, FALSE)
  /\ storeUnchanged
  /\ UNCHANGED backend /\ dbUnchanged /\ UNCHANGED <<playerVars, hookVars, extVars>>

\* the setTimeout callback armed by scheduleRoomCleanup
RoomCleanupTimeout(roomId) ==
  /\ backend = "store"
  /\ roomId \in roomCleanupTimers
  /\ rooms' = IF roomId \in DOMAIN rooms /\ Len(rooms[roomId].users) = 0
                THEN MapDelete(rooms, roomId)
                ELSE rooms
  /\ roomCleanupTimers' = roomCleanupTimers \ {roomId}
  /\ UNCHANGED <<backend, response>> /\ dbUnchanged /\ UNCHANGED <<playerVars, hookVars, extVars>>

\* ------------------------------------------------------ DatabaseService
\* DatabaseService.formatRoom: the Room object built from a rooms row
formatRoom(roomData, users) ==
  [currentVideo |->
     IF roomData.current_video_id # Null
       THEN [id |-> roomData.current_video_id,
             title |-> roomData.current_video_title,
             type |-> roomData.current_video_type,
             url |-> roomData.current_video_url,
             thumbnail |-> roomData.current_video_thumbnail,
             tmdbId |-> Null]
       ELSE NoVideo,
   users |-> users,
   isPlaying |-> roomData.is_playing,
   currentTime |-> roomData.current_position]

\* users of DatabaseService.getRoom: usersData.map(...)
RowUsers(rows) == [i \in 1..Len(rows) |-> User(rows[i].user_id, rows[i].is_host)]

\* DatabaseService.getRoom over given tables; defined when the room row exists
getRoomOf(roomsTable, usersTable, roomId) ==
  formatRoom(roomsTable[roomId],
             RowUsers(Filter(usersTable, LAMBDA row : row.room_id = roomId)))

getRoom(roomId) == getRoomOf(dbRooms, room_users, roomId)

\* .from('rooms').delete().eq('id', roomId), with ON DELETE CASCADE of room_users
DeleteRoomCascade(roomId) ==
  /\ dbRooms' = MapDelete(dbRooms, roomId)
  /\ room_users' = Filter(room_users, LAMBDA row : row.room_id # roomId)

\* DatabaseService.cleanupBlobFile: del(url) for a blob URL; a failing del is
\* caught and leaves the blob in place
cleanupBlobFile(url) ==
  IF url \in BlobUrls
    THEN \/ blobs' = blobs \ {url}
         \/ blobs' = blobs
    ELSE blobs' = blobs

\* the room's current video is an uploaded file
HasLocalVideo(roomId) ==
  /\ roomId \in DOMAIN dbRooms
  /\ getRoom(roomId).currentVideo.url # Null
  /\ getRoom(roomId).currentVideo.type = "local"

\* del was called on a blob of the room's current video and failed
CleanupFailed(roomId) ==
  /\ HasLocalVideo(roomId)
  /\ getRoom(roomId).currentVideo.url \in blobs
  /\ getRoom(roomId).currentVideo.url \in blobs'

\* a cleanupBlobFile without its try / catch
cleanupRethrows(delFailed) == delFailed

\* the catch of cleanupBlobFile: the caller never sees the error of del
cleanupThrows(delFailed) == FALSE

\* the cleanup that leaveRoom and updateVideo run for the room's current video
CleanupCurrentVideo(roomId) ==
  IF /\ roomId \in DOMAIN dbRooms
     /\ getRoom(roomId).currentVideo.url # Null
     /\ getRoom(roomId).currentVideo.type = "local"
    THEN cleanupBlobFile(getRoom(roomId).currentVideo.url)
    ELSE blobs' = blobs

\* trigger update_room_users_last_active, BEFORE UPDATE ON room_users
update_last_active(row) == [row EXCEPT !.last_active = now]

\* DatabaseService.createRoom; result TRUE when a Room is returned
DatabaseService_createRoom(roomId, host, result) ==
  IF roomId \in DOMAIN dbRooms
    THEN \* roomError: duplicate primary key
         /\ result = FALSE
         /\ UNCHANGED <<dbRooms, room_users>>
    ELSE /\ result = TRUE
         /\ dbRooms' = MapSet(dbRooms, roomId,
              [current_video_id |-> Null, current_video_title |-> Null,
               current_video_type |-> Null, current_video_url |-> Null,
               current_video_thumbnail |-> Null,
               is_playing |-> FALSE, current_position |-> 0])
         /\ room_users' = Append(room_users,
              [room_id |-> roomId, user_id |-> host.id, is_host |-> host.isHost,
               last_active |-> now])

\* an insert in place of the upsert, on a table without the unique constraint
UpsertAlwaysInserts(table, roomId, user) ==
  Append(table, [room_id |-> roomId, user_id |-> user.id, is_host |-> user.isHost,
                 last_active |-> now])

\* .upsert({...}, {onConflict: 'room_id,user_id'}): the conflicting row is
\* updated in place (joined_at kept), otherwise a row is inserted
Upsert(table, roomId, user) ==
  IF \E i \in 1..Len(table) : table[i].room_id = roomId /\ table[i].user_id = user.id
    THEN [i \in 1..Len(table) |->
            IF table[i].room_id = roomId /\ table[i].user_id = user.id
              THEN update_last_active([table[i] EXCEPT !.is_host = user.isHost])
              ELSE table[i]]
    ELSE Append(table, [room_id |-> roomId, user_id |-> user.id, is_host |-> user.isHost,
                        last_active |-> now])

\* DatabaseService.joinRoom
DatabaseService_joinRoom(roomId, user, result) ==
  IF roomId \notin DOMAIN dbRooms
    THEN /\ result = FALSE
         /\ UNCHANGED <<dbRooms, room_users>>
    ELSE /\ result = TRUE
         /\ room_users' = Upsert(room_users, roomId, user)
         /\ UNCHANGED dbRooms

\* hasHost = remainingUsers.some(u => u.is_host)
DbHasHost(rows) == Some(rows, LAMBDA row : row.is_host)

\* .update({ is_host: true }).eq('id', row.id) for the row at index i
PromoteRow(table, i) ==
  [table EXCEPT ![i] = update_last_active([@ EXCEPT !.is_host = TRUE])]

\* indexes into table of the rows the select of leaveRoom may return first:
\* the select has no ORDER BY, so remainingUsers[0] is any remaining row
FirstRemaining(table, roomId) ==
  {i \in 1..Len(table) : table[i].room_id = roomId}

\* the remainingUsers that leaveRoom selects after its delete are empty
NoneRemains(roomId, userId) ==
  \A i \in 1..Len(room_users) :
    room_users[i].room_id = roomId => room_users[i].user_id = userId

\* DatabaseService.leaveRoom
DatabaseService_leaveRoom(roomId, userId, result) ==
  LET remaining == Filter(room_users,
                     LAMBDA row : ~(row.room_id = roomId /\ row.user_id = userId))
      remainingUsers == Filter(remaining, LAMBDA row : row.room_id = roomId)
  IN IF Len(remainingUsers) = 0
       THEN /\ CleanupCurrentVideo(roomId)
            /\ IF cleanupThrows(CleanupFailed(roomId))
                 THEN UNCHANGED dbRooms /\ room_users' = remaining
                 ELSE DeleteRoomCascade(roomId)
            /\ result = FALSE
       ELSE /\ IF ~DbHasHost(remainingUsers)
                 THEN \E i \in FirstRemaining(remaining, roomId) :
                        room_users' = PromoteRow(remaining, i)
                 ELSE room_users' = remaining
            /\ UNCHANGED <<dbRooms, blobs>>
            /\ result = (roomId \in DOMAIN dbRooms)

\* an update that replaces the video columns and leaves the playback columns
UpdateDataKeepsPlayback(row, video) ==
  [row EXCEPT !.current_video_id = video.id,
              !.current_video_title = video.title,
              !.current_video_type = video.type,
              !.current_video_url = video.url,
              !.current_video_thumbnail = video.thumbnail]

\* the rooms row after the update of DatabaseService.updateVideo; a key whose
\* value is undefined (a video without thumbnail) is not part of the JSON
\* body, so that column keeps its value
UpdateData(row, video) ==
  IF video # NoVideo
    THEN [row EXCEPT !.current_video_id = video.id,
                     !.current_video_title = video.title,
                     !.current_video_type = video.type,
                     !.current_video_url = video.url,
                     !.current_video_thumbnail =
                        IF video.thumbnail = Null THEN @ ELSE video.thumbnail,
                     !.current_position = 0,
                     !.is_playing = FALSE]
    ELSE [row EXCEPT !.current_video_id = Null,
                     !.current_video_title = Null,
                     !.current_video_type = Null,
                     !.current_video_url = Null,
                     !.current_video_thumbnail = Null,
                     !.current_position = 0,
                     !.is_playing = FALSE]

\* DatabaseService.updateVideo
DatabaseService_updateVideo(roomId, video, result) ==
  /\ CleanupCurrentVideo(roomId)
  /\ dbRooms' = IF roomId \in DOMAIN dbRooms /\ ~cleanupThrows(CleanupFailed(roomId))
                  THEN [dbRooms EXCEPT ![roomId] = UpdateData(@, video)]
                  ELSE dbRooms
  /\ UNCHANGED room_users
  /\ result = (roomId \in DOMAIN dbRooms /\ ~cleanupThrows(CleanupFailed(roomId)))

\* DatabaseService.updateVideoState
DatabaseService_updateVideoState(roomId, isPlaying, currentTime, result) ==
  /\ dbRooms' = IF roomId \in DOMAIN dbRooms
                  THEN [dbRooms EXCEPT ![roomId].is_playing = isPlaying,
                                       ![roomId].current_position = currentTime]
                  ELSE dbRooms
  /\ UNCHANGED <<room_users, blobs>>
  /\ result = (roomId \in DOMAIN dbRooms)

\* ------------------------------ route.ts over databaseService (POST, GET)
DbPostCreate(roomId, userId) ==
  /\ backend = "db"
  /\ \E result \in BOOLEAN :
       /\ DatabaseService_createRoom(roomId, hostUser(userId), result)
       /\ response' = Response("create", IF result THEN 200 ELSE 500, result)
  /\ UNCHANGED <<backend, blobs>> /\ storeUnchanged /\ UNCHANGED <<playerVars, hookVars, extVars>>

DbPostJoin(roomId, userId) ==
  /\ backend = "db"
  /\ \E result \in BOOLEAN :
       /\ DatabaseService_joinRoom(roomId, joinUser(userId), result)
       /\ response' = Response("join", IF result THEN 200 ELSE 404, result)
  /\ UNCHANGED <<backend, blobs>> /\ storeUnchanged /\ UNCHANGED <<playerVars, hookVars, extVars>>

DbPostLeave(roomId, userId) ==
  /\ backend = "db"
  /\ \E result \in BOOLEAN :
       /\ DatabaseService_leaveRoom(roomId, userId, result)
       /\ response' = [Response("leave", 200, result) EXCEPT
                         !.cleanupError = NoneRemains(roomId, userId) /\ CleanupFailed(roomId)]
  /\ UNCHANGED backend /\ storeUnchanged /\ UNCHANGED <<playerVars, hookVars, extVars>>

DbPostUpdateVideo(roomId, video) ==
  /\ backend = "db"
  /\ \E result \in BOOLEAN :
       /\ DatabaseService_updateVideo(roomId, video, result)
       /\ response' = [Response("updateVideo", IF result THEN 200 ELSE 404, result) EXCEPT
                         !.cleanupError = CleanupFailed(roomId)]
  /\ UNCHANGED backend /\ storeUnchanged /\ UNCHANGED <<playerVars, hookVars, extVars>>

\* the request carries no user
DbPostUpdateState(roomId, isPlaying, currentTime) ==
  /\ backend = "db"
  /\ \E result \in BOOLEAN :
       /\ DatabaseService_updateVideoState(roomId, isPlaying, currentTime, result)
       /\ response' = Response("updateState", IF result THEN 200 ELSE 404, result)
  /\ UNCHANGED backend /\ storeUnchanged /\ UNCHANGED <<playerVars, hookVars, extVars>>

\* GET /api/rooms/[roomId]
DbGetRoom(roomId) ==
  /\ backend = "db"
  /\ response' = IF roomId \in DOMAIN dbRooms
                   THEN Response("get", 200, TRUE)
                   ELSE Response("get", 404, FALSE)
  /\ UNCHANGED backend /\ dbUnchanged /\ storeUnchanged /\ UNCHANGED <<playerVars, hookVars, extVars>>

\* GET /api/rooms/[roomId]/events: create the room or join it
DbGetEvents(roomId, userId) ==
  /\ backend = "db"
  /\ IF roomId \notin DOMAIN dbRooms
       THEN \E result \in BOOLEAN :
              /\ DatabaseService_createRoom(roomId, hostUser(userId), result)
              /\ response' = Response("events", IF result THEN 200 ELSE 500, result)
       ELSE IF ~Some(getRoom(roomId).users, LAMBDA u : u.id = userId)
         THEN \E result \in BOOLEAN :
                /\ DatabaseService_joinRoom(roomId, joinUser(userId), result)
                /\ response' = Response("events", IF result THEN 200 ELSE 500, result)
         ELSE /\ UNCHANGED <<dbRooms, room_users>>
              /\ response' = Response("events", 200, TRUE)
  /\ UNCHANGED <<backend, blobs>> /\ storeUnchanged /\ UNCHANGED <<playerVars, hookVars, extVars>>

\* the default branch of the switch: any other action, among them the
\* promoteUser and demoteUser requests of useRoom
DbPostDefault(roomId, action) ==
  /\ backend = "db"
  /\ response' = Response(action, 400, FALSE)
  /\ UNCHANGED backend /\ dbUnchanged /\ storeUnchanged /\ UNCHANGED <<playerVars, hookVars, extVars>>

DbNext ==
  \E roomId \in RoomIds :
    \/ \E action \in OtherActions : DbPostDefault(roomId, action)
    \/ \E u \in UserIds : DbPostCreate(roomId, u)
    \/ \E u \in UserIds : DbPostJoin(roomId, u)
    \/ \E u \in UserIds : DbPostLeave(roomId, u)
    \/ \E v \in Videos \cup {NoVideo} : DbPostUpdateVideo(roomId, v)
    \/ \E p \in BOOLEAN, t \in Positions : DbPostUpdateState(roomId, p, t)
    \/ DbGetRoom(roomId)
    \/ \E u \in UserIds : DbGetEvents(roomId, u)

InitRooms ==
  /\ backend \in {"store", "db"}
  /\ rooms = EmptyMap
  /\ roomCleanupTimers = {}
  /\ dbRooms = EmptyMap
  /\ room_users = <<>>
  /\ blobs = BlobUrls
  /\ response = Response("none", 200, FALSE)

StoreNext ==
  \E roomId \in RoomIds :
    \/ \E action \in OtherActions : StorePostDefault(roomId, action)
    \/ \E u \in UserIds : StorePostCreate(roomId, u)
    \/ \E u \in UserIds : StorePostJoin(roomId, u)
    \/ \E u \in UserIds : StorePostLeave(roomId, u)
    \/ \E v \in Videos \cup {NoVideo} : StorePostUpdateVideo(roomId, v)
    \/ \E p \in BOOLEAN, t \in Positions : StorePostUpdateState(roomId, p, t)
    \/ StoreGetRoom(roomId)
    \/ RoomCleanupTimeout(roomId)

\* ----------------------------------------------------------- VideoPlayer
SyncPositions == 0..MaxSyncPos
VideoTypes == {"youtube", "local", "movie", "tv"}
NoVideoType == "none"
\* HTMLMediaElement.readyState: HAVE_METADATA, HAVE_ENOUGH_DATA
ReadyStates == {1, 4}

Abs(x) == IF x < 0 THEN -x ELSE x

\* a syncVideo with the desktop frequency for every device
syncFrequencyDesktopOnly(isMobile) == 1

\* syncVideo: syncFrequency, in seconds
syncFrequency(isMobile) == IF isMobile THEN 2 ELSE 1

\* syncVideo: syncThreshold of the youtube branch, in seconds
youtubeSyncThreshold(isMobile) == IF isMobile THEN 3 ELSE 2

\* syncVideo: syncThreshold of the local branch, in seconds
localSyncThreshold(isMobile) == IF isMobile THEN 4 ELSE 2

\* a comparison against the mobile threshold on every device
youtubeShouldSeekMobileOnly(timeDiff, isMobile) == timeDiff > 3

\* timeDiff > syncThreshold, youtube branch
youtubeShouldSeek(timeDiff, isMobile) == timeDiff > youtubeSyncThreshold(isMobile)

\* a comparison that also seeks at the threshold itself
localShouldSeekAtThreshold(timeDiff, isMobile) == timeDiff >= localSyncThreshold(isMobile)

\* timeDiff > syncThreshold, local branch
localShouldSeek(timeDiff, isMobile) == timeDiff > localSyncThreshold(isMobile)

\* the early return of the local branch: seeking, mobile buffering, scrolling
localGuard(el, isMobile, isScrolling) ==
  el.seeking \/ (isMobile /\ el.readyState < 2) \/ isScrolling

\* what one step of the component issues: seeks, play, pause on the element,
\* and push, a call of onStateChange (the host's playback-state update)
NoCommands ==
  [ran |-> FALSE, seeks |-> <<>>, play |-> FALSE, pause |-> FALSE, push |-> FALSE, event |-> FALSE]

\* the play / pause reconciliation of both branches
wantsPlay(isPlaying, paused) == isPlaying /\ paused
wantsPause(isPlaying, paused) == ~isPlaying /\ ~paused

\* the element after the play/pause reconciliation; a play() may be rejected
\* (autoplay policy), and then the element stays paused
AfterPlayPause(el, isPlaying, played) ==
  IF wantsPlay(isPlaying, el.paused)
    THEN [el EXCEPT !.paused = ~played]
    ELSE IF wantsPause(isPlaying, el.paused)
      THEN [el EXCEPT !.paused = TRUE]
      ELSE el

\* syncVideo, one call, in a render with props p, component state pl and
\* media element el; played: whether a play() it issues takes effect
syncVideoOf(p, pl, el, played) ==
  IF sinceLastSync < syncFrequency(pl.isMobile)
    THEN /\ commands' = NoCommands
         /\ element' = el /\ UNCHANGED sinceLastSync
    ELSE IF p.video = "youtube" /\ pl.youtubeRef /\ pl.isReady
      THEN LET timeDiff == Abs(el.currentTime - p.currentTime)
               seek == youtubeShouldSeek(timeDiff, pl.isMobile)
               sought == IF seek
                           THEN [el EXCEPT !.currentTime = p.currentTime]
                           ELSE el
           IN /\ element' = AfterPlayPause(sought, p.isPlaying, played)
              /\ commands' = [ran |-> TRUE,
                              seeks |-> IF seek THEN <<p.currentTime>> ELSE <<>>,
                              play |-> wantsPlay(p.isPlaying, el.paused),
                              pause |-> wantsPause(p.isPlaying, el.paused),
                              push |-> FALSE, event |-> FALSE]
              /\ sinceLastSync' = 0
      ELSE IF p.video = "local"
        THEN LET timeDiff == Abs(el.currentTime - p.currentTime)
                 seek == localShouldSeek(timeDiff, pl.isMobile)
                 sought == IF seek
                             THEN [el EXCEPT !.currentTime = p.currentTime,
                                                  !.seeking = TRUE]
                             ELSE el
             IN IF localGuard(el, pl.isMobile, pl.isScrolling)
                  THEN /\ commands' = [NoCommands EXCEPT !.ran = TRUE]
                       /\ element' = el /\ UNCHANGED sinceLastSync
                  ELSE /\ element' = AfterPlayPause(sought, p.isPlaying, played)
                       /\ commands' = [ran |-> TRUE,
                              seeks |-> IF seek THEN <<p.currentTime>> ELSE <<>>,
                              play |-> wantsPlay(p.isPlaying, el.paused),
                              pause |-> wantsPause(p.isPlaying, el.paused),
                              push |-> FALSE, event |-> FALSE]
                       /\ sinceLastSync' = 0
        ELSE /\ commands' = [NoCommands EXCEPT !.ran = TRUE]
             /\ element' = el /\ UNCHANGED sinceLastSync

\* syncVideo as the component calls it
syncVideo(played) == syncVideoOf(props, player, element, played)

\* the effect that runs syncVideo on a viewer that has a video
SyncVideo ==
  /\ ~props.isHost
  /\ props.video # NoVideoType
  /\ \E played \in BOOLEAN : syncVideo(played)
  /\ UNCHANGED <<props, player>>
  /\ UNCHANGED <<roomVars, hookVars, extVars>>

\* a new room snapshot reaches the component: isPlaying, currentTime
PropsUpdate(isPlaying, currentTime) ==
  /\ props' = [props EXCEPT !.isPlaying = isPlaying, !.currentTime = currentTime]
  /\ commands' = NoCommands
  /\ UNCHANGED <<player, element, sinceLastSync>>
  /\ UNCHANGED <<roomVars, hookVars, extVars>>

\* the room's video changes: another element is rendered
VideoChange(type) ==
  /\ props.video # type
  /\ props' = [props EXCEPT !.video = type]
  /\ element' = [currentTime |-> 0, paused |-> TRUE, seeking |-> FALSE, readyState |-> 1]
  /\ commands' = NoCommands
  /\ UNCHANGED <<player, sinceLastSync>>
  /\ UNCHANGED <<roomVars, hookVars, extVars>>

\* handleYouTubeReady
YouTubeReady ==
  /\ props.video = "youtube"
  /\ player' = [player EXCEPT !.youtubeRef = TRUE, !.isReady = TRUE]
  /\ commands' = NoCommands
  /\ UNCHANGED <<props, element, sinceLastSync>>
  /\ UNCHANGED <<roomVars, hookVars, extVars>>

\* onLoadedMetadata of the <video> element
LoadedMetadata ==
  /\ props.video = "local"
  /\ player' = [player EXCEPT !.isReady = TRUE]
  /\ commands' = NoCommands
  /\ UNCHANGED <<props, element, sinceLastSync>>
  /\ UNCHANGED <<roomVars, hookVars, extVars>>

\* the scroll listener (isScrolling := true) and its 200 ms timeout
Scroll ==
  /\ player' = [player EXCEPT !.isScrolling = TRUE]
  /\ commands' = NoCommands
  /\ UNCHANGED <<props, element, sinceLastSync>>
  /\ UNCHANGED <<roomVars, hookVars, extVars>>

ScrollTimeout ==
  /\ player.isScrolling
  /\ player' = [player EXCEPT !.isScrolling = FALSE]
  /\ commands' = NoCommands
  /\ UNCHANGED <<props, element, sinceLastSync>>
  /\ UNCHANGED <<roomVars, hookVars, extVars>>

\* a render without the iframe branch: <video> for every type but youtube
rendersVideoElementForEmbeds(type) == type \notin {"youtube", NoVideoType}

\* the render: <video> for a type that is neither youtube nor movie / tv
rendersVideoElement(type) == type \notin {"youtube", "movie", "tv", NoVideoType}

\* the guard between a media event and the updateState request: the handlers
\* return at once unless isHost, and so does useRoom.updateVideoState
onStateChangeUnguarded(isHost) == TRUE

onStateChange(isHost) == isHost

\* handleYouTubeStateChange: the YouTube player reports a state change; on
\* the host, who has the controls, it is a play or a pause and is pushed
handleYouTubeStateChange ==
  /\ props.video = "youtube"
  /\ player.youtubeRef
  /\ element' = IF props.isHost THEN [element EXCEPT !.paused = ~@] ELSE element
  /\ commands' = [NoCommands EXCEPT !.push = onStateChange(props.isHost),
                                  !.event = TRUE]
  /\ UNCHANGED <<props, player, sinceLastSync>>
  /\ UNCHANGED <<roomVars, hookVars, extVars>>

\* handleLocalVideoTimeUpdate, also behind onPlay and onPause of <video>: on
\* the host, who has the controls, a play or a pause may come with it
handleLocalVideoTimeUpdate ==
  /\ rendersVideoElement(props.video)
  /\ \E toggled \in BOOLEAN :
       element' = IF props.isHost /\ toggled
                    THEN [element EXCEPT !.paused = ~@]
                    ELSE element
  /\ commands' = [NoCommands EXCEPT !.push = onStateChange(props.isHost),
                                  !.event = TRUE]
  /\ UNCHANGED <<props, player, sinceLastSync>>
  /\ UNCHANGED <<roomVars, hookVars, extVars>>

\* the media element on its own: playback advances, a seek starts or
\* completes, data runs out or arrives
ElementStep ==
  /\ props.video \in {"youtube", "local"}
  /\ \/ /\ ~element.paused /\ element.currentTime < MaxSyncPos
        /\ element' = [element EXCEPT !.currentTime = @ + 1]
     \/ /\ props.video = "local"
        /\ element' = [element EXCEPT !.seeking = ~@]
     \/ /\ props.video = "local"
        /\ \E rs \in ReadyStates \ {element.readyState} :
             element' = [element EXCEPT !.readyState = rs]
  /\ commands' = NoCommands
  /\ UNCHANGED <<props, player, sinceLastSync>>
  /\ UNCHANGED <<roomVars, hookVars, extVars>>

\* one second passes
Clock ==
  /\ sinceLastSync < MaxElapsed
  /\ sinceLastSync' = sinceLastSync + 1
  /\ commands' = NoCommands
  /\ UNCHANGED <<props, player, element>>
  /\ UNCHANGED <<roomVars, hookVars, extVars>>

\* the mount effect that detects a mobile device: setIsMobile(checkMobile());
\* isMobile is false until then
DetectMobile(m) ==
  /\ ~player.mobileChecked
  /\ player' = [player EXCEPT !.isMobile = m, !.mobileChecked = TRUE]
  /\ commands' = NoCommands
  /\ UNCHANGED <<props, element, sinceLastSync>>
  /\ UNCHANGED <<roomVars, hookVars, extVars>>

InitPlayer ==
  /\ props = [video |-> NoVideoType, isPlaying |-> FALSE, currentTime |-> 0,
              isHost |-> FALSE]
  /\ player = [isMobile |-> FALSE, isScrolling |-> FALSE, isReady |-> FALSE,
               youtubeRef |-> FALSE, mobileChecked |-> FALSE]
  /\ element = [currentTime |-> 0, paused |-> TRUE, seeking |-> FALSE, readyState |-> 1]
  /\ sinceLastSync = MaxElapsed
  /\ commands = NoCommands

\* a mounted player: the device class and the role are those of the client
InitMounted ==
  /\ \E h \in BOOLEAN :
       /\ props = [video |-> NoVideoType, isPlaying |-> FALSE, currentTime |-> 0,
                   isHost |-> h]
       /\ player = [isMobile |-> FALSE, isScrolling |-> FALSE, isReady |-> FALSE,
                    youtubeRef |-> FALSE, mobileChecked |-> FALSE]
  /\ element = [currentTime |-> 0, paused |-> TRUE, seeking |-> FALSE, readyState |-> 1]
  /\ sinceLastSync = MaxElapsed
  /\ commands = NoCommands

NextSync ==
  \/ SyncVideo
  \/ \E m \in BOOLEAN : DetectMobile(m)
  \/ \E p \in BOOLEAN, t \in SyncPositions : PropsUpdate(p, t)
  \/ \E type \in VideoTypes \cup {NoVideoType} : VideoChange(type)
  \/ YouTubeReady
  \/ LoadedMetadata
  \/ Scroll
  \/ ScrollTimeout
  \/ handleYouTubeStateChange
  \/ handleLocalVideoTimeUpdate
  \/ ElementStep
  \/ Clock


\* ---------------- VideoPlayer, the sync effect run by the renders it follows
\* a render with props p, component state pl and media element el, and the
\* effect after it: its dependencies are isPlaying, currentTime, syncVideo
\* (video, isPlaying, currentTime, isReady, isMobile, isScrolling), isHost
\* and video, so it runs after the renders that change one of them and after
\* no other step
RenderEffect(p, pl, el) ==
  /\ props' = p
  /\ player' = pl
  /\ IF ~p.isHost /\ p.video # NoVideoType
       THEN \E played \in BOOLEAN : syncVideoOf(p, pl, el, played)
       ELSE /\ element' = el
            /\ commands' = NoCommands
            /\ UNCHANGED sinceLastSync
  /\ UNCHANGED <<roomVars, hookVars, extVars>>

\* a room snapshot reaches the component; video is a new object in every
\* snapshot, so the effect runs also when isPlaying and currentTime are the
\* same as before
SnapshotRender(isPlaying, currentTime) ==
  /\ currentTime \in SyncPositions
  /\ RenderEffect([props EXCEPT !.isPlaying = isPlaying, !.currentTime = currentTime],
                  player, element)

\* the room's video changes: another element is rendered
VideoRender(type) ==
  /\ props.video # type
  /\ RenderEffect([props EXCEPT !.video = type], player,
                  [currentTime |-> 0, paused |-> TRUE, seeking |-> FALSE,
                   readyState |-> 1])

\* the component states that handleYouTubeReady, onLoadedMetadata, the scroll
\* listener and its timeout, and the mobile detection lead to
StateChanges ==
  {[player EXCEPT !.youtubeRef = TRUE, !.isReady = TRUE] : x \in
      {y \in {props.video} : y = "youtube"}}
  \cup {[player EXCEPT !.isReady = TRUE] : x \in {y \in {props.video} : y = "local"}}
  \cup {[player EXCEPT !.isScrolling = ~@]}
  \cup {[player EXCEPT !.isMobile = m, !.mobileChecked = TRUE] :
          m \in {y \in BOOLEAN : ~player.mobileChecked}}

\* a state change of the component re-renders it
StateRender(pl) ==
  /\ pl # player
  /\ RenderEffect(props, pl, element)

NextEffect ==
  \/ \E p \in BOOLEAN, t \in SyncPositions : SnapshotRender(p, t)
  \/ \E type \in VideoTypes \cup {NoVideoType} : VideoRender(type)
  \/ \E pl \in StateChanges : StateRender(pl)
  \/ handleYouTubeStateChange
  \/ handleLocalVideoTimeUpdate
  \/ ElementStep
  \/ Clock

\* ------------------------------------------- useRoom, Supabase revision
ChannelIds == 1..MaxJoins
\* REALTIME_SUBSCRIBE_STATES, the argument of the channel.subscribe callback
Statuses == {"SUBSCRIBED", "CLOSED", "TIMED_OUT", "CHANNEL_ERROR"}
\* fetch outcomes of GET /api/rooms/[roomId]: ok, 404, or a rejected fetch
FetchResults == {"ok", "notfound", "error"}

\* a channel: status is the last status its subscribe callback was called
\* with ("joining" before the first, "unsubscribed" once unsubscribe() was
\* called on it); timeout is its subscribeTimeout
NoChannel == [status |-> "none", timeout |-> "none"]

\* the next channel object supabase.channel() returns
NewChannelId == Cardinality({c \in ChannelIds : channels[c].status # "none"}) + 1

\* startPolling: no second interval when one is running
startPolling(c) == [c EXCEPT !.polling = TRUE]

\* stopPolling: clearInterval
stopPolling(c) == [c EXCEPT !.polling = FALSE]

\* channelRef.current.unsubscribe(), when channelRef.current is set
unsubscribe(chs, ref) ==
  IF ref = 0 THEN chs ELSE [chs EXCEPT ![ref].status = "unsubscribed"]

\* clearTimeout(subscribeTimeout)
clearSubscribeTimeout(ch) ==
  IF ch.timeout = "pending" THEN [ch EXCEPT !.timeout = "cleared"] ELSE ch

\* the status of a channel after its callback ran with a status
reported(ch, status) ==
  IF ch.status = "unsubscribed" THEN ch ELSE [ch EXCEPT !.status = status]

\* a SUBSCRIBED branch that also ends the polling fallback
onSubscribedStopsPolling(c) == [c EXCEPT !.isConnected = TRUE, !.polling = FALSE]

\* the SUBSCRIBED branch of the subscribe callback
onSubscribed(c) == [c EXCEPT !.isConnected = TRUE]

\* the CLOSED / TIMED_OUT branch of the subscribe callback
onClosed(c) == startPolling([c EXCEPT !.isConnected = TRUE])

\* refetchRoomData up to its await: the fetch of the room is sent
fetchRoom(c) == [c EXCEPT !.fetching = @ + 1]

\* refetchRoomData after its await, with the outcome of the fetch
refetchRoomData(result) ==
  LET settled == [client EXCEPT !.fetching = @ - 1]
  IN IF result = "ok"
       THEN /\ client' = [settled EXCEPT !.inRoom = TRUE, !.snapshot = TRUE]
            /\ UNCHANGED channels
       ELSE IF result = "notfound"
         THEN /\ client' = [settled EXCEPT !.inRoom = FALSE, !.isConnected = FALSE,
                                          !.channelRef = 0]
              /\ channels' = unsubscribe(channels, client.channelRef)
         ELSE /\ client' = settled
              /\ UNCHANGED channels

\* joinRoom: POST create / join; on an ok response the room is set and
\* connectToRoom is scheduled one second later
JoinRoom(ok) ==
  /\ client.mounted
  /\ client.joins < MaxJoins
  /\ client' = [client EXCEPT !.joins = @ + 1,
                              !.left = FALSE,
                              !.snapshot = FALSE,
                              !.inRoom = IF ok THEN TRUE ELSE @,
                              !.connectTimers = IF ok THEN @ + 1 ELSE @]
  /\ sent' = <<"join">>
  /\ UNCHANGED channels
  /\ UNCHANGED <<roomVars, playerVars, sseVars, extVars>>

\* the one-second timer of joinRoom fires: connectToRoom up to its fetch
ConnectToRoom ==
  /\ client.connectTimers > 0
  /\ IF client.channelRef # 0
       THEN /\ client' = [client EXCEPT !.connectTimers = @ - 1]
            /\ sent' = <<>>
       ELSE /\ client' = [client EXCEPT !.connectTimers = @ - 1,
                                        !.connecting = @ + 1]
            /\ sent' = <<"events">>
  /\ UNCHANGED channels
  /\ UNCHANGED <<roomVars, playerVars, sseVars, extVars>>

\* connectToRoom once its fetch has settled: the channel is created and
\* subscribed, the five-second subscribeTimeout is armed
ConnectSubscribe(ok) ==
  /\ client.connecting > 0
  /\ client' = [client EXCEPT !.connecting = @ - 1,
                              !.inRoom = IF ok THEN TRUE ELSE @,
                              !.snapshot = IF ok THEN TRUE ELSE @,
                              !.channelRef = NewChannelId]
  /\ channels' = [channels EXCEPT ![NewChannelId] =
                    [status |-> "joining", timeout |-> "pending"]]
  /\ sent' = <<>>
  /\ UNCHANGED <<roomVars, playerVars, sseVars, extVars>>

\* the subscribeTimeout of channel c fires, five seconds after subscribe
SubscribeTimeout(c) ==
  /\ channels[c].timeout = "pending"
  /\ channels' = [channels EXCEPT ![c].timeout = "fired"]
  /\ client' = startPolling([client EXCEPT !.isConnected = TRUE])
  /\ sent' = <<>>
  /\ UNCHANGED <<roomVars, playerVars, sseVars, extVars>>

\* the subscribe callback of channel c, called with the status the transport
\* reports; the transport may report to an unsubscribed channel as well
SubscribeStatus(c, status) ==
  /\ channels[c].status \notin {"none", status}
  /\ IF status = "SUBSCRIBED"
       THEN /\ client' = onSubscribed(client)
            /\ channels' = [channels EXCEPT
                 ![c] = reported(clearSubscribeTimeout(@), status)]
       ELSE IF status \in {"CLOSED", "TIMED_OUT"}
         THEN /\ client' = onClosed(client)
              /\ channels' = [channels EXCEPT
                   ![c] = reported(clearSubscribeTimeout(@), status)]
         ELSE /\ client' = client
              /\ channels' = [channels EXCEPT ![c] = reported(@, status)]
  /\ sent' = <<>>
  /\ UNCHANGED <<roomVars, playerVars, sseVars, extVars>>

\* one tick of the polling interval: refetchRoomData and refetchMessages
\* send their requests
PollTick ==
  /\ client.polling
  /\ client.fetching < MaxInflight
  /\ client' = fetchRoom(client)
  /\ sent' = <<"room", "chat">>
  /\ UNCHANGED channels
  /\ UNCHANGED <<roomVars, playerVars, sseVars, extVars>>

\* the fetch of a refetchRoomData settles
RefetchSettles(result) ==
  /\ client.fetching > 0
  /\ refetchRoomData(result)
  /\ sent' = <<>>
  /\ UNCHANGED <<roomVars, playerVars, sseVars, extVars>>

\* a postgres_changes notification on a subscribed channel: rooms and
\* room_users refetch the room, chat_messages refetches the messages
ChangeNotification(c, table) ==
  /\ channels[c].status = "SUBSCRIBED"
  /\ IF table = "chat_messages"
       THEN /\ UNCHANGED client
            /\ sent' = <<"chat">>
       ELSE /\ client.fetching < MaxInflight
            /\ client' = fetchRoom(client)
            /\ sent' = <<"room">>
  /\ UNCHANGED channels
  /\ UNCHANGED <<roomVars, playerVars, sseVars, extVars>>

\* leaveRoom; ok: the fetch of the leave request did not throw
LeaveRoom(ok) ==
  /\ client.mounted
  /\ LET stopped == [stopPolling(client) EXCEPT !.channelRef = 0, !.left = TRUE]
     IN client' = IF ok
                    THEN [stopped EXCEPT !.inRoom = FALSE, !.isConnected = FALSE]
                    ELSE stopped
  /\ channels' = unsubscribe(channels, client.channelRef)
  /\ sent' = <<"leave">>
  /\ UNCHANGED <<roomVars, playerVars, sseVars, extVars>>

\* the cleanup of the unmount effect
Unmount ==
  /\ client.mounted
  /\ client' = [stopPolling(client) EXCEPT !.mounted = FALSE]
  /\ channels' = unsubscribe(channels, client.channelRef)
  /\ sent' = <<>>
  /\ UNCHANGED <<roomVars, playerVars, sseVars, extVars>>

InitClient ==
  /\ client = [mounted |-> TRUE, inRoom |-> FALSE, isConnected |-> FALSE,
               channelRef |-> 0, polling |-> FALSE, connectTimers |-> 0,
               connecting |-> 0, joins |-> 0, left |-> FALSE,
               fetching |-> 0, snapshot |-> FALSE]
  /\ channels = [c \in ChannelIds |-> NoChannel]
  /\ sent = <<>>

NextClient ==
  \/ \E ok \in BOOLEAN : JoinRoom(ok)
  \/ ConnectToRoom
  \/ \E ok \in BOOLEAN : ConnectSubscribe(ok)
  \/ \E c \in ChannelIds : SubscribeTimeout(c)
  \/ \E c \in ChannelIds, status \in Statuses : SubscribeStatus(c, status)
  \/ PollTick
  \/ \E c \in ChannelIds, table \in {"rooms", "room_users", "chat_messages"} :
       ChangeNotification(c, table)
  \/ \E result \in FetchResults : RefetchSettles(result)
  \/ \E ok \in BOOLEAN : LeaveRoom(ok)
  \/ Unmount

\* ----------------------------------------- useRoom, EventSource revision
maxRetries == 5
baseDelay == 2000

Min(a, b) == IF a < b THEN a ELSE b

\* Math.min(baseDelay * Math.pow(2, retryCount - 1), 30000), milliseconds
reconnectDelay(retryCount) == Min(baseDelay * 2 ^ (retryCount - 1), 30000)

\* attemptReconnect, called with the value retryCount has at the call:
\* whether a timer is set, and its delay
attemptReconnect(retryCount) ==
  IF retryCount >= maxRetries
    THEN [scheduled |-> FALSE, delay |-> 0]
    ELSE [scheduled |-> TRUE, delay |-> reconnectDelay(retryCount + 1)]

\* connectToRoom: a new EventSource unless eventSourceRef is set
connectToRoom(s) ==
  IF s.eventSource # "null" THEN s ELSE [s EXCEPT !.eventSource = "connecting"]

\* joinRoom: POST create / join; on an ok response connectToRoom is scheduled
\* one second later. A join is the manual retry.
SseJoinRoom(ok) ==
  /\ sse.mounted
  /\ sse.joins < MaxJoins
  /\ sse' = [sse EXCEPT !.joins = @ + 1,
                        !.inRoom = IF ok THEN TRUE ELSE @,
                        !.connectTimers = IF ok THEN @ + 1 ELSE @,
                        !.attempts = 0]
  /\ UNCHANGED <<roomVars, playerVars, clientVars, extVars>>

\* the one-second timer of joinRoom fires
SseConnectTimeout ==
  /\ sse.connectTimers > 0
  /\ sse' = connectToRoom([sse EXCEPT !.connectTimers = @ - 1])
  /\ UNCHANGED <<roomVars, playerVars, clientVars, extVars>>

\* eventSource.onopen
SseOpen ==
  /\ sse.eventSource = "connecting"
  /\ sse' = [sse EXCEPT !.eventSource = "open", !.isConnected = TRUE,
                        !.attempts = 0]
  /\ UNCHANGED <<roomVars, playerVars, clientVars, extVars>>

\* eventSource.onmessage with a room-state or a room-closed event
SseMessage(type) ==
  /\ sse.eventSource = "open"
  /\ sse' = IF type = "room-closed"
              THEN [sse EXCEPT !.inRoom = FALSE, !.isConnected = FALSE,
                               !.eventSource = "closed"]
              ELSE [sse EXCEPT !.inRoom = TRUE]
  /\ UNCHANGED <<roomVars, playerVars, clientVars, extVars>>

\* eventSource.onerror: the source is closed and dropped, retryCount starts
\* at 0 in the handler, and attemptReconnect is called once.
\* attempts counts the reconnections scheduled since the last onopen.
SseError ==
  /\ sse.eventSource \in {"connecting", "open"}
  /\ sse.attempts < MaxAttempts
  /\ LET retryCount == 0
         timer == attemptReconnect(retryCount)
     IN sse' = [sse EXCEPT !.isConnected = FALSE,
                           !.eventSource = "null",
                           !.reconnectTimers = IF timer.scheduled THEN @ + 1 ELSE @,
                           !.attempts = IF timer.scheduled THEN @ + 1 ELSE @,
                           !.delay = IF timer.scheduled THEN timer.delay ELSE @]
  /\ UNCHANGED <<roomVars, playerVars, clientVars, extVars>>

\* the timer of attemptReconnect fires: with no EventSource it checks the
\* room and connects whatever the answer, otherwise it skips
SseReconnectTimeout ==
  /\ sse.reconnectTimers > 0
  /\ sse' = connectToRoom([sse EXCEPT !.reconnectTimers = @ - 1])
  /\ UNCHANGED <<roomVars, playerVars, clientVars, extVars>>

\* leaveRoom; ok: the fetch of the leave request did not throw
SseLeaveRoom(ok) ==
  /\ sse.mounted
  /\ sse' = [sse EXCEPT !.eventSource = "null",
                        !.inRoom = IF ok THEN FALSE ELSE @,
                        !.isConnected = IF ok THEN FALSE ELSE @]
  /\ UNCHANGED <<roomVars, playerVars, clientVars, extVars>>

\* the cleanup of the unmount effect: the source is closed, the ref kept
SseUnmount ==
  /\ sse.mounted
  /\ sse' = [sse EXCEPT !.mounted = FALSE,
                        !.eventSource = IF @ = "null" THEN @ ELSE "closed"]
  /\ UNCHANGED <<roomVars, playerVars, clientVars, extVars>>

InitSse ==
  sse = [mounted |-> TRUE, inRoom |-> FALSE, isConnected |-> FALSE,
         eventSource |-> "null", connectTimers |-> 0, reconnectTimers |-> 0,
         joins |-> 0, attempts |-> 0, delay |-> 0]

NextSse ==
  \/ \E ok \in BOOLEAN : SseJoinRoom(ok)
  \/ SseConnectTimeout
  \/ SseOpen
  \/ \E type \in {"room-state", "room-closed"} : SseMessage(type)
  \/ SseError
  \/ SseReconnectTimeout
  \/ \E ok \in BOOLEAN : SseLeaveRoom(ok)
  \/ SseUnmount

InitHooks == InitClient /\ InitSse

\* ------------------------------------- the cleanup route (inactive users)
\* 30 * 60 * 1000 ms; time is counted in quarters of an hour
ThirtyMinutes == 2

\* the time passes
Tick ==
  /\ now < MaxNow
  /\ now' = now + 1
  /\ UNCHANGED <<chatVars, store30Vars, concVars>>
  /\ UNCHANGED <<roomVars, playerVars, hookVars>>

\* a filter that also takes the users last active exactly 30 minutes ago
isInactiveAtThirty(row, thirtyMinutesAgo) == row.last_active <= thirtyMinutesAgo

\* new Date(user.last_active) < thirtyMinutesAgo
isInactive(row, thirtyMinutesAgo) == row.last_active < thirtyMinutesAgo

\* the tables and the media store, as a value
Tables(d, u, b) == [dbRooms |-> d, room_users |-> u, blobs |-> b]

\* DatabaseService.leaveRoom as a function of the tables: the tables it may
\* leave and whether it returns a Room
leaveRoomOutcomes(t, roomId, userId) ==
  LET remaining == Filter(t.room_users,
                     LAMBDA row : ~(row.room_id = roomId /\ row.user_id = userId))
      remainingUsers == Filter(remaining, LAMBDA row : row.room_id = roomId)
      url == IF roomId \in DOMAIN t.dbRooms
               THEN t.dbRooms[roomId].current_video_url ELSE Null
      local == /\ roomId \in DOMAIN t.dbRooms
               /\ t.dbRooms[roomId].current_video_id # Null
               /\ url # Null
               /\ t.dbRooms[roomId].current_video_type = "local"
               /\ url \in BlobUrls
  IN IF Len(remainingUsers) = 0
       THEN {[tables |-> Tables(MapDelete(t.dbRooms, roomId),
                                Filter(remaining, LAMBDA row : row.room_id # roomId),
                                b),
              result |-> FALSE] :
               b \in IF local THEN {t.blobs, t.blobs \ {url}} ELSE {t.blobs}}
       ELSE {[tables |-> Tables(t.dbRooms, u, t.blobs),
              result |-> roomId \in DOMAIN t.dbRooms] :
               u \in IF DbHasHost(remainingUsers)
                       THEN {remaining}
                       ELSE {PromoteRow(remaining, i) :
                               i \in FirstRemaining(remaining, roomId)}}

\* the loop over inactiveUsers, in the order the select returned them (any
\* order): leaveRoom for each, until one returns null
RECURSIVE removeInactive(_, _, _, _)
removeInactive(t, roomId, inactive, removed) ==
  IF inactive = {}
    THEN {[tables |-> t, inactiveUsersRemoved |-> removed]}
    ELSE UNION {
           UNION {IF o.result
                    THEN removeInactive(o.tables, roomId, inactive \ {userId}, removed + 1)
                    ELSE {[tables |-> o.tables, inactiveUsersRemoved |-> removed + 1]} :
                  o \in leaveRoomOutcomes(t, roomId, userId)} :
           userId \in inactive}

\* the user_id of the rows of a room that the filter of the sweep keeps
inactiveUsers(t, roomId, thirtyMinutesAgo) ==
  {t.room_users[i].user_id :
     i \in {j \in 1..Len(t.room_users) :
              /\ t.room_users[j].room_id = roomId
              /\ isInactive(t.room_users[j], thirtyMinutesAgo)}}

\* the loop over the rooms of getAllRooms
RECURSIVE sweepRooms(_, _, _, _)
sweepRooms(t, roomIds, thirtyMinutesAgo, removed) ==
  IF roomIds = {}
    THEN {[tables |-> t, inactiveUsersRemoved |-> removed]}
    ELSE LET roomId == CHOOSE r \in roomIds : TRUE
         IN UNION {sweepRooms(o.tables, roomIds \ {roomId}, thirtyMinutesAgo,
                              o.inactiveUsersRemoved) :
                   o \in removeInactive(t, roomId,
                            inactiveUsers(t, roomId, thirtyMinutesAgo), removed)}

\* POST /api/cleanup
CleanupPost ==
  /\ backend = "db"
  /\ \E o \in sweepRooms(Tables(dbRooms, room_users, blobs), DOMAIN dbRooms,
                          now - ThirtyMinutes, 0) :
       /\ dbRooms' = o.tables.dbRooms
       /\ room_users' = o.tables.room_users
       /\ blobs' = o.tables.blobs
       /\ response' = [action |-> "cleanup", status |-> 200, room |-> FALSE,
                       cleanupError |-> FALSE,
                       inactiveUsersRemoved |-> o.inactiveUsersRemoved]
  /\ UNCHANGED backend /\ storeUnchanged /\ UNCHANGED <<playerVars, hookVars, extVars>>

\* the requests that change who is a member, the clock and the sweep
NextSweep ==
  \/ \E roomId \in RoomIds, userId \in UserIds :
       \/ DbPostCreate(roomId, userId)
       \/ DbPostJoin(roomId, userId)
       \/ DbPostLeave(roomId, userId)
       \/ DbGetEvents(roomId, userId)
  \/ Tick
  \/ CleanupPost

\* ------------------------------- chat: DatabaseService and /chat/route.ts
ChatRoomIds == {"r1", "r2"}
\* created_at is a timestamptz with microseconds; here in half milliseconds
ChatTimes == 0..MaxChatTime
\* getMessages(roomId, limit = 100)
DefaultLimit == 100
Limits == (1..MaxLimit) \cup {DefaultLimit}

NoFetch == [action |-> "none", roomId |-> "none", limit |-> 0, messages |-> <<>>]

\* .insert({room_id, user_id, user_name, message}): id and created_at are the
\* column defaults, created_at the NOW() of the inserting transaction
DatabaseService_addMessage(roomId, at) ==
  chat_messages' = Append(chat_messages,
    [id |-> Len(chat_messages) + 1, room_id |-> roomId, created_at |-> at])

\* the orders in which the rows at the indexes in left may come back, the
\* greatest created_at first; rows with equal created_at come in any order
RECURSIVE OrderedFrom(_, _)
OrderedFrom(rows, left) ==
  IF left = {}
    THEN {<<>>}
    ELSE UNION {{<<rows[i]>> \o rest : rest \in OrderedFrom(rows, left \ {i})} :
                i \in {k \in left :
                         \A j \in left : rows[k].created_at >= rows[j].created_at}}

\* .order('created_at', {ascending: false})
OrderedDesc(rows) == OrderedFrom(rows, 1..Len(rows))

\* .limit(limit)
Take(s, limit) == SubSeq(s, 1, Min(limit, Len(s)))

\* a getMessages that returns data as the query ordered it
ReverseOmitted(s) == s

\* Array.prototype.reverse
Reverse(s) == [i \in 1..Len(s) |-> s[Len(s) + 1 - i]]

\* new Date(msg.created_at): a Date has milliseconds, the rest is dropped
toDate(created_at) == created_at \div 2

\* the ChatMessage that getMessages maps a row to
ChatMessageOf(row) == [id |-> row.id, timestamp |-> toDate(row.created_at)]

\* DatabaseService.getMessages: the arrays it may return
DatabaseService_getMessages(roomId, limit) ==
  {[i \in 1..Len(data) |-> ChatMessageOf(Reverse(data)[i])] :
     data \in {Take(q, limit) :
                 q \in OrderedDesc(Filter(chat_messages,
                                           LAMBDA row : row.room_id = roomId))}}

\* POST /api/rooms/[roomId]/chat, for a room of table rooms
ChatPost(roomId, at) ==
  /\ Len(chat_messages) < MaxMessages
  /\ DatabaseService_addMessage(roomId, at)
  /\ fetched' = [NoFetch EXCEPT !.action = "post", !.roomId = roomId]
  /\ UNCHANGED <<chatStore, added, now, store30Vars, concVars>>
  /\ UNCHANGED <<roomVars, playerVars, hookVars>>

\* a call of DatabaseService.getMessages; GET /api/rooms/[roomId]/chat is the
\* call with the default limit
ChatGet(roomId, limit) ==
  /\ \E result \in DatabaseService_getMessages(roomId, limit) :
       fetched' = [action |-> "get", roomId |-> roomId, limit |-> limit,
                   messages |-> result]
  /\ UNCHANGED <<chat_messages, chatStore, added, now, store30Vars, concVars>>
  /\ UNCHANGED <<roomVars, playerVars, hookVars>>

NextChat ==
  \/ \E roomId \in ChatRoomIds, at \in ChatTimes : ChatPost(roomId, at)
  \/ \E roomId \in ChatRoomIds, limit \in Limits : ChatGet(roomId, limit)

\* -------------------------------------------------------------- ChatStore
\* the messages ChatStore keeps per room
ChatStoreCap == 100

\* a message is named by its place among the messages added to its room
\* since the room's messages were last cleared

\* a splice that drops the newest messages
spliceNewest(roomMessages) ==
  IF Len(roomMessages) > ChatStoreCap
    THEN SubSeq(roomMessages, 1, ChatStoreCap)
    ELSE roomMessages

\* if (length > 100) roomMessages.splice(0, length - 100)
splice(roomMessages) ==
  IF Len(roomMessages) > ChatStoreCap
    THEN SubSeq(roomMessages, Len(roomMessages) - ChatStoreCap + 1, Len(roomMessages))
    ELSE roomMessages

\* ChatStore.getMessages: this.messages.get(roomId) || []
ChatStore_getMessages(roomId) ==
  IF roomId \in DOMAIN chatStore THEN chatStore[roomId] ELSE <<>>

\* ChatStore.addMessage
ChatStore_addMessage(roomId) ==
  /\ added[roomId] < MaxAdds
  /\ added' = [added EXCEPT ![roomId] = @ + 1]
  /\ chatStore' = MapSet(chatStore, roomId,
                     splice(Append(ChatStore_getMessages(roomId), added[roomId] + 1)))
  /\ UNCHANGED <<chat_messages, fetched, now, store30Vars, concVars>>
  /\ UNCHANGED <<roomVars, playerVars, hookVars>>

\* ChatStore.clearMessages
ChatStore_clearMessages(roomId) ==
  /\ roomId \in DOMAIN chatStore
  /\ chatStore' = MapDelete(chatStore, roomId)
  /\ added' = [added EXCEPT ![roomId] = 0]
  /\ UNCHANGED <<chat_messages, fetched, now, store30Vars, concVars>>
  /\ UNCHANGED <<roomVars, playerVars, hookVars>>

NextChatStore ==
  \E roomId \in ChatRoomIds :
    \/ ChatStore_addMessage(roomId)
    \/ ChatStore_clearMessages(roomId)

InitChat ==
  /\ chat_messages = <<>>
  /\ fetched = NoFetch
  /\ chatStore = EmptyMap
  /\ added = [roomId \in ChatRoomIds |-> 0]

\* ------------------------------------------------ RoomStore (30 seconds)
NoTimers == [pending |-> 0, mapped |-> FALSE]

\* RoomStore.scheduleRoomCleanup: sets a timeout and maps the room to it; a
\* timeout the room was mapped to before stays armed
scheduleRoomCleanup30(t) == [pending |-> t.pending + 1, mapped |-> TRUE]

\* RoomStore.resetCleanupTimer: clears the timeout the room is mapped to,
\* the last one scheduled
resetCleanupTimer30(t) ==
  IF t.mapped THEN [pending |-> t.pending - 1, mapped |-> FALSE] ELSE t

\* RoomStore.createRoom
RoomStore30_createRoom(roomId, userId) ==
  /\ rooms30' = MapSet(rooms30, roomId,
                  [currentVideo |-> NoVideo, users |-> <<hostUser(userId)>>,
                   isPlaying |-> FALSE, currentTime |-> 0])
  /\ timers30' = [timers30 EXCEPT ![roomId] = resetCleanupTimer30(@)]
  /\ UNCHANGED <<now, chatVars, streams30, concVars>>
  /\ UNCHANGED <<roomVars, playerVars, hookVars>>

\* RoomStore.joinRoom
RoomStore30_joinRoom(roomId, userId) ==
  /\ roomId \in DOMAIN rooms30
  /\ rooms30' = [rooms30 EXCEPT ![roomId].users = StoreJoinUsers(@, joinUser(userId))]
  /\ timers30' = [timers30 EXCEPT ![roomId] = resetCleanupTimer30(@)]
  /\ UNCHANGED <<now, chatVars, streams30, concVars>>
  /\ UNCHANGED <<roomVars, playerVars, hookVars>>

\* RoomStore.leaveRoom
leaveRoom30(roomId, userId) ==
  /\ roomId \in DOMAIN rooms30
  /\ LET users == StoreLeaveUsers(rooms30[roomId].users, userId)
     IN /\ rooms30' = [rooms30 EXCEPT ![roomId].users = users]
        /\ IF Len(users) = 0
             THEN /\ timers30[roomId].pending < MaxTimers
                  /\ timers30' = [timers30 EXCEPT ![roomId] = scheduleRoomCleanup30(@)]
             ELSE timers30' = [timers30 EXCEPT ![roomId] = resetCleanupTimer30(@)]

\* route.ts POST, action 'leave'
RoomStore30_leaveRoom(roomId, userId) ==
  /\ leaveRoom30(roomId, userId)
  /\ UNCHANGED <<now, chatVars, streams30, concVars>>
  /\ UNCHANGED <<roomVars, playerVars, hookVars>>

\* RoomStore.leaveRoom as the cleanup of a stream calls it: null, and
\* nothing changes, when the room is gone
cleanup30(roomId, userId) ==
  IF roomId \in DOMAIN rooms30
    THEN leaveRoom30(roomId, userId)
    ELSE UNCHANGED <<rooms30, timers30>>

\* events/route.ts GET: 404 without the room, else a stream is opened; one
\* stream at a time per userId
Events30Get(roomId, userId) ==
  /\ roomId \in DOMAIN rooms30
  /\ streams30[roomId][userId] = "none"
  /\ streams30' = [streams30 EXCEPT ![roomId][userId] = "open"]
  /\ UNCHANGED <<rooms30, timers30, now, chatVars, concVars>>
  /\ UNCHANGED <<roomVars, playerVars, hookVars>>

\* events/route.ts: the request is aborted, cleanup runs
Events30Abort(roomId, userId) ==
  /\ streams30[roomId][userId] = "open"
  /\ streams30' = [streams30 EXCEPT ![roomId][userId] = "aborted"]
  /\ cleanup30(roomId, userId)
  /\ UNCHANGED <<now, chatVars, concVars>>
  /\ UNCHANGED <<roomVars, playerVars, hookVars>>

\* events/route.ts: five minutes after the stream was opened cleanup runs
\* (again, if the request was aborted before) and the stream is closed
Events30Timeout(roomId, userId) ==
  /\ streams30[roomId][userId] # "none"
  /\ streams30' = [streams30 EXCEPT ![roomId][userId] = "none"]
  /\ cleanup30(roomId, userId)
  /\ UNCHANGED <<now, chatVars, concVars>>
  /\ UNCHANGED <<roomVars, playerVars, hookVars>>

\* RoomStore.updateVideo
RoomStore30_updateVideo(roomId, video) ==
  /\ roomId \in DOMAIN rooms30
  /\ rooms30' = [rooms30 EXCEPT ![roomId].currentVideo = video,
                                ![roomId].currentTime = 0,
                                ![roomId].isPlaying = FALSE]
  /\ timers30' = [timers30 EXCEPT ![roomId] = resetCleanupTimer30(@)]
  /\ UNCHANGED <<now, chatVars, streams30, concVars>>
  /\ UNCHANGED <<roomVars, playerVars, hookVars>>

\* RoomStore.updateVideoState
RoomStore30_updateVideoState(roomId, isPlaying, currentTime) ==
  /\ roomId \in DOMAIN rooms30
  /\ rooms30' = [rooms30 EXCEPT ![roomId].isPlaying = isPlaying,
                                ![roomId].currentTime = currentTime]
  /\ timers30' = [timers30 EXCEPT ![roomId] = resetCleanupTimer30(@)]
  /\ UNCHANGED <<now, chatVars, streams30, concVars>>
  /\ UNCHANGED <<roomVars, playerVars, hookVars>>

\* the callback of a timeout of scheduleRoomCleanup, 30 s after it was set:
\* the earliest one pending
Cleanup30Timeout(roomId) ==
  /\ timers30[roomId].pending > 0
  /\ rooms30' = MapDelete(rooms30, roomId)
  /\ timers30' = [timers30 EXCEPT ![roomId] =
                    [pending |-> @.pending - 1, mapped |-> FALSE]]
  /\ UNCHANGED <<now, chatVars, streams30, concVars>>
  /\ UNCHANGED <<roomVars, playerVars, hookVars>>

NextStore30 ==
  \E roomId \in RoomIds :
    \/ \E userId \in UserIds : RoomStore30_createRoom(roomId, userId)
    \/ \E userId \in UserIds : RoomStore30_joinRoom(roomId, userId)
    \/ \E userId \in UserIds : RoomStore30_leaveRoom(roomId, userId)
    \/ \E userId \in UserIds : Events30Get(roomId, userId)
    \/ \E userId \in UserIds : Events30Abort(roomId, userId)
    \/ \E userId \in UserIds : Events30Timeout(roomId, userId)
    \/ \E video \in Videos \cup {NoVideo} : RoomStore30_updateVideo(roomId, video)
    \/ \E isPlaying \in BOOLEAN, currentTime \in Positions :
         RoomStore30_updateVideoState(roomId, isPlaying, currentTime)
    \/ Cleanup30Timeout(roomId)

InitStore30 ==
  /\ rooms30 = EmptyMap
  /\ timers30 = [roomId \in RoomIds |-> NoTimers]
  /\ streams30 = [roomId \in RoomIds |-> [userId \in UserIds |-> "none"]]

\* ------------------- DatabaseService calls, one repository request at a time
CallIds == 1..MaxCalls
NoCall ==
  [op |-> "none", pc |-> "done", roomId |-> "r1", userId |-> 1,
   remainingUsers |-> <<>>, result |-> FALSE]

\* everything but the tables and the calls
callsUnchanged ==
  /\ UNCHANGED <<backend, response>> /\ storeUnchanged
  /\ UNCHANGED <<playerVars, hookVars, now, chatVars, store30Vars>>
  /\ UNCHANGED <<snapshot, fetches, notifications, requests, sessions>>

\* leaveRoom, first request: .delete().eq('room_id', roomId).eq('user_id', userId)
LeaveDelete(c, roomId, userId) ==
  /\ backend = "db"
  /\ calls[c].pc = "done"
  /\ room_users' = Filter(room_users,
                      LAMBDA row : ~(row.room_id = roomId /\ row.user_id = userId))
  /\ calls' = [calls EXCEPT ![c] =
                 [op |-> "leaveRoom", pc |-> "select", roomId |-> roomId,
                  userId |-> userId, remainingUsers |-> <<>>, result |-> FALSE]]
  /\ UNCHANGED <<dbRooms, blobs>> /\ callsUnchanged

\* leaveRoom, second request: .select('*').eq('room_id', roomId)
LeaveSelect(c) ==
  /\ calls[c].op = "leaveRoom" /\ calls[c].pc = "select"
  /\ calls' = [calls EXCEPT
                 ![c].remainingUsers =
                    Filter(room_users, LAMBDA row : row.room_id = calls[c].roomId),
                 ![c].pc = "finish"]
  /\ UNCHANGED <<dbRooms, room_users, blobs>> /\ callsUnchanged

\* .update({ is_host: true }).eq('id', row.id): the row of the table that is
\* the selected row, if it is still there
UpdateById(table, row) ==
  [i \in 1..Len(table) |->
     IF table[i].room_id = row.room_id /\ table[i].user_id = row.user_id
       THEN update_last_active([table[i] EXCEPT !.is_host = TRUE])
       ELSE table[i]]

\* leaveRoom, after the select: an empty room is cleaned up and deleted (with
\* ON DELETE CASCADE); otherwise, without a host among the rows selected,
\* remainingUsers[0] is made host, the select having no ORDER BY
LeaveFinish(c) ==
  /\ calls[c].op = "leaveRoom" /\ calls[c].pc = "finish"
  /\ IF Len(calls[c].remainingUsers) = 0
       THEN /\ CleanupCurrentVideo(calls[c].roomId)
            /\ IF cleanupThrows(CleanupFailed(calls[c].roomId))
                 THEN UNCHANGED <<dbRooms, room_users>>
                 ELSE DeleteRoomCascade(calls[c].roomId)
            /\ calls' = [calls EXCEPT ![c].pc = "done", ![c].result = FALSE]
       ELSE /\ IF ~DbHasHost(calls[c].remainingUsers)
                 THEN \E i \in 1..Len(calls[c].remainingUsers) :
                        room_users' = UpdateById(room_users, calls[c].remainingUsers[i])
                 ELSE UNCHANGED room_users
            /\ UNCHANGED <<dbRooms, blobs>>
            /\ calls' = [calls EXCEPT ![c].pc = "done",
                                      ![c].result = (calls[c].roomId \in DOMAIN dbRooms)]
  /\ callsUnchanged

\* joinRoom, first request: getRoom; no room, no join
JoinGetRoom(c, roomId, userId) ==
  /\ backend = "db"
  /\ calls[c].pc = "done"
  /\ calls' = [calls EXCEPT ![c] =
                 [op |-> "joinRoom",
                  pc |-> IF roomId \in DOMAIN dbRooms THEN "upsert" ELSE "done",
                  roomId |-> roomId, userId |-> userId,
                  remainingUsers |-> <<>>, result |-> FALSE]]
  /\ UNCHANGED <<dbRooms, room_users, blobs>> /\ callsUnchanged

\* a row inserted now has an id that no select has returned: the rows of
\* that user that a call selected earlier match no row any more
StaleRows(rows, roomId, userId) ==
  [i \in 1..Len(rows) |->
     IF rows[i].room_id = roomId /\ rows[i].user_id = userId
       THEN [rows[i] EXCEPT !.user_id = 0]
       ELSE rows[i]]

\* joinRoom, the upsert; room_users.room_id references rooms(id), so without
\* the room the upsert fails and joinRoom returns null
JoinUpsert(c) ==
  /\ calls[c].op = "joinRoom" /\ calls[c].pc = "upsert"
  /\ IF calls[c].roomId \in DOMAIN dbRooms
       THEN /\ room_users' = Upsert(room_users, calls[c].roomId, joinUser(calls[c].userId))
            /\ calls' = [d \in CallIds |->
                 IF d = c
                   THEN [calls[c] EXCEPT !.pc = "return"]
                   ELSE [calls[d] EXCEPT !.remainingUsers =
                           IF Len(room_users') > Len(room_users)
                             THEN StaleRows(@, calls[c].roomId, calls[c].userId)
                             ELSE @]]
       ELSE /\ UNCHANGED room_users
            /\ calls' = [calls EXCEPT ![c].pc = "done"]
  /\ UNCHANGED <<dbRooms, blobs>> /\ callsUnchanged

\* joinRoom, last request: return this.getRoom(roomId), null without the room
JoinReturn(c) ==
  /\ calls[c].op = "joinRoom" /\ calls[c].pc = "return"
  /\ calls' = [calls EXCEPT ![c].pc = "done",
                            ![c].result = (calls[c].roomId \in DOMAIN dbRooms)]
  /\ UNCHANGED <<dbRooms, room_users, blobs>> /\ callsUnchanged

\* no call is in progress
NoCallRunning == \A c \in CallIds : calls[c].pc = "done"

\* rooms are created and joined between the calls; leaveRoom calls, of
\* explicit leaves and of sweep evictions, run request by request
NextLeaves ==
  \/ \E roomId \in RoomIds, userId \in UserIds :
       \/ NoCallRunning /\ DbPostCreate(roomId, userId)
       \/ NoCallRunning /\ DbPostJoin(roomId, userId)
       \/ \E c \in CallIds : LeaveDelete(c, roomId, userId)
  \/ \E c \in CallIds : LeaveSelect(c)
  \/ \E c \in CallIds : LeaveFinish(c)

\* leaveRoom and joinRoom calls, request by request
NextLeaveJoin ==
  \/ \E roomId \in RoomIds, userId \in UserIds :
       \/ NoCallRunning /\ DbPostCreate(roomId, userId)
       \/ \E c \in CallIds : LeaveDelete(c, roomId, userId)
       \/ \E c \in CallIds : JoinGetRoom(c, roomId, userId)
  \/ \E c \in CallIds : LeaveSelect(c)
  \/ \E c \in CallIds : LeaveFinish(c)
  \/ \E c \in CallIds : JoinUpsert(c)
  \/ \E c \in CallIds : JoinReturn(c)

\* ------------------------------ the host's client against the repository
\* a YouTube video as VideoControls builds it
VYouTube ==
  [id |-> "yt1", title |-> "YouTube Video", type |-> "youtube", url |-> "watch-yt1",
   thumbnail |-> "hq-yt1", tmdbId |-> Null]
\* the videos whose player reports playback events
HostVideos == {VLocal, VYouTube}

NoRoomState ==
  [room |-> FALSE, video |-> Null, type |-> Null, isPlaying |-> FALSE, currentTime |-> 0]

\* the Room of GET /api/rooms/[roomId], as far as video and playback go
RoomState(roomId) ==
  IF roomId \in DOMAIN dbRooms
    THEN [room |-> TRUE,
          video |-> getRoom(roomId).currentVideo.id,
          type |-> getRoom(roomId).currentVideo.type,
          isPlaying |-> getRoom(roomId).isPlaying,
          currentTime |-> getRoom(roomId).currentTime]
    ELSE NoRoomState

\* everything but the repository's room and the client's view of it
hostUnchanged ==
  /\ UNCHANGED <<backend, response, room_users>> /\ storeUnchanged
  /\ UNCHANGED <<playerVars, hookVars, now, chatVars, store30Vars, calls, sessions>>

\* useRoom.joinRoom('create') of user 1: on an ok response setRoom(data.room)
HostJoinRoom(roomId) ==
  /\ backend = "db"
  /\ ~snapshot.room
  /\ roomId \notin DOMAIN dbRooms
  /\ \E result \in BOOLEAN :
       DatabaseService_createRoom(roomId, hostUser(1), result)
  /\ snapshot' = [NoRoomState EXCEPT !.room = TRUE]
  /\ UNCHANGED <<blobs, fetches, notifications, requests>>
  /\ UNCHANGED <<backend, response>> /\ storeUnchanged
  /\ UNCHANGED <<playerVars, hookVars, now, chatVars, store30Vars, calls, sessions>>

\* useRoom.updateVideo of the host: the POST, applied by updateVideo; the
\* response is not read, the client learns of the change by notification
HostUpdateVideo(roomId, video) ==
  /\ snapshot.room
  /\ notifications < MaxNotifications
  /\ \E result \in BOOLEAN :
       /\ DatabaseService_updateVideo(roomId, video, result)
       /\ notifications' = IF result THEN notifications + 1 ELSE notifications
  /\ UNCHANGED <<snapshot, fetches, requests>>
  /\ hostUnchanged

\* a media event on the host's player: handleYouTubeStateChange or
\* handleLocalVideoTimeUpdate calls onStateChange, updateVideoState sends the
\* POST. The body is isPlaying and currentTime; video, the video the player
\* holds, is kept to tell which video the request was sent for
HostPlaybackEvent(isPlaying, currentTime) ==
  /\ snapshot.room
  /\ snapshot.type \in {"youtube", "local"}
  /\ Cardinality(requests) < MaxRequests
  /\ requests' = requests \cup {[isPlaying |-> isPlaying, currentTime |-> currentTime,
                                  video |-> snapshot.video]}
  /\ UNCHANGED <<dbRooms, blobs, snapshot, fetches, notifications>>
  /\ hostUnchanged

\* POST updateState reaches the server: updateVideoState
ApplyUpdateState(roomId, req) ==
  /\ req \in requests
  /\ notifications < MaxNotifications
  /\ requests' = requests \ {req}
  /\ \E result \in BOOLEAN :
       /\ DatabaseService_updateVideoState(roomId, req.isPlaying, req.currentTime, result)
       /\ notifications' = IF result THEN notifications + 1 ELSE notifications
  /\ UNCHANGED <<snapshot, fetches>>
  /\ hostUnchanged

\* a postgres_changes event is delivered: the handler calls refetchRoomData,
\* which sends its GET whatever other GETs are in flight
Notification ==
  /\ notifications > 0
  /\ Len(fetches) < MaxInflight
  /\ notifications' = notifications - 1
  /\ fetches' = Append(fetches, [answered |-> FALSE, data |-> NoRoomState])
  /\ UNCHANGED <<dbRooms, blobs, snapshot, requests>>
  /\ hostUnchanged

\* GET /api/rooms/[roomId] reaches the server: the response holds the room
\* of that moment
FetchRead(roomId, i) ==
  /\ i \in 1..Len(fetches)
  /\ ~fetches[i].answered
  /\ fetches' = [fetches EXCEPT ![i] = [answered |-> TRUE, data |-> RoomState(roomId)]]
  /\ UNCHANGED <<dbRooms, blobs, snapshot, notifications, requests>>
  /\ hostUnchanged

\* a response arrives, in whatever order: setRoom(data.room), or setRoom(null)
\* on 404
FetchReturn(i) ==
  /\ i \in 1..Len(fetches)
  /\ fetches[i].answered
  /\ snapshot' = fetches[i].data
  /\ fetches' = [j \in 1..(Len(fetches) - 1) |->
                   IF j < i THEN fetches[j] ELSE fetches[j + 1]]
  /\ UNCHANGED <<dbRooms, blobs, notifications, requests>>
  /\ hostUnchanged

NextHost ==
  \E roomId \in RoomIds :
    \/ HostJoinRoom(roomId)
    \/ \E video \in HostVideos \cup {NoVideo} : HostUpdateVideo(roomId, video)
    \/ \E isPlaying \in BOOLEAN, currentTime \in Positions :
         HostPlaybackEvent(isPlaying, currentTime)
    \/ \E req \in requests : ApplyUpdateState(roomId, req)
    \/ Notification
    \/ \E i \in 1..MaxInflight : FetchRead(roomId, i)
    \/ \E i \in 1..MaxInflight : FetchReturn(i)

\* ------------------------------- clients of useRoom against the repository
NoSession == [open |-> FALSE, connectTimer |-> FALSE, left |-> FALSE]

\* everything but the tables and the sessions
sessionUnchanged ==
  /\ UNCHANGED <<backend, response>> /\ storeUnchanged
  /\ UNCHANGED <<playerVars, hookVars, now, chatVars, store30Vars>>
  /\ UNCHANGED <<calls, snapshot, fetches, notifications, requests>>

\* useRoom.joinRoom: POST create (with a roomName) or join; an ok response
\* schedules connectToRoom one second later
ClientJoinRoom(roomId, userId, create) ==
  /\ backend = "db"
  /\ \E result \in BOOLEAN :
       /\ IF create
            THEN DatabaseService_createRoom(roomId, hostUser(userId), result)
            ELSE DatabaseService_joinRoom(roomId, joinUser(userId), result)
       /\ sessions' = [sessions EXCEPT ![userId].left = FALSE,
                                       ![userId].connectTimer = (result \/ @)]
  /\ UNCHANGED blobs /\ sessionUnchanged

\* the one-second timer fires: connectToRoom returns when channelRef.current
\* is set; otherwise GET events, which creates the room or joins it, and a
\* channel is created and subscribed
ClientConnect(roomId, userId) ==
  /\ backend = "db"
  /\ sessions[userId].connectTimer
  /\ IF sessions[userId].open
       THEN UNCHANGED <<dbRooms, room_users>>
       ELSE IF roomId \notin DOMAIN dbRooms
         THEN \E result \in BOOLEAN :
                DatabaseService_createRoom(roomId, hostUser(userId), result)
         ELSE IF ~Some(getRoom(roomId).users, LAMBDA u : u.id = userId)
           THEN \E result \in BOOLEAN :
                  DatabaseService_joinRoom(roomId, joinUser(userId), result)
           ELSE UNCHANGED <<dbRooms, room_users>>
  /\ sessions' = [sessions EXCEPT ![userId].connectTimer = FALSE,
                                  ![userId].open = TRUE]
  /\ UNCHANGED blobs /\ sessionUnchanged

\* useRoom.leaveRoom: stopPolling, unsubscribe, channelRef.current = null,
\* POST leave; the connect timer is left alone
ClientLeaveRoom(roomId, userId) ==
  /\ backend = "db"
  /\ \E result \in BOOLEAN : DatabaseService_leaveRoom(roomId, userId, result)
  /\ sessions' = [sessions EXCEPT ![userId].open = FALSE, ![userId].left = TRUE]
  /\ sessionUnchanged

\* a connected client polls or refetches: GET /api/rooms/[roomId]
ClientPoll(roomId, userId) ==
  /\ sessions[userId].open
  /\ DbGetRoom(roomId)

\* clients join, connect, poll and leave while time passes and the sweep,
\* which every client posts every ten minutes, runs
NextSession ==
  \/ \E roomId \in RoomIds, userId \in UserIds :
       \/ \E create \in BOOLEAN : ClientJoinRoom(roomId, userId, create)
       \/ ClientConnect(roomId, userId)
       \/ ClientLeaveRoom(roomId, userId)
       \/ ClientPoll(roomId, userId)
  \/ Tick
  \/ CleanupPost

InitConc ==
  /\ calls = [c \in CallIds |-> NoCall]
  /\ snapshot = NoRoomState
  /\ fetches = <<>>
  /\ notifications = 0
  /\ requests = {}
  /\ sessions = [userId \in UserIds |-> NoSession]

InitExt == InitChat /\ InitStore30 /\ now = 0 /\ InitConc

vars == <<roomVars, playerVars, hookVars, extVars>>
Init == InitRooms /\ InitPlayer /\ InitHooks /\ InitExt
Next == StoreNext \/ DbNext
Spec == Init /\ [][Next]_vars
InitSync == InitMounted /\ InitRooms /\ backend = "store" /\ InitHooks /\ InitExt
SpecSync == InitSync /\ [][NextSync]_vars

\* the player with its effect run by the renders
SpecEffect == InitSync /\ [][NextEffect]_vars
\* the 200 ms timeout that the scroll listener sets
ScrollTimeoutRender ==
  player.isScrolling /\ StateRender([player EXCEPT !.isScrolling = FALSE])
\* time passes, and a timeout that was set fires
FairEffect == SpecEffect /\ WF_vars(Clock) /\ WF_vars(ScrollTimeoutRender)

\* the database back end with empty tables; the hooks run against a server
\* that answers as it likes
InitClientSpec == InitRooms /\ backend = "db" /\ InitPlayer /\ InitHooks /\ InitExt
SpecClient == InitClientSpec /\ [][NextClient]_vars
SpecReconnect == InitClientSpec /\ [][NextSse]_vars

\* the chat over the database
SpecChat == InitClientSpec /\ [][NextChat]_vars

\* the chat over ChatStore
InitStoreSpec == InitRooms /\ backend = "store" /\ InitPlayer /\ InitHooks /\ InitExt
SpecChatStore == InitStoreSpec /\ [][NextChatStore]_vars

\* the room manager over the RoomStore whose empty rooms live 30 seconds
SpecStore30 == InitStoreSpec /\ [][NextStore30]_vars

\* the room manager over the database, with time and the cleanup route
SpecSweep == InitClientSpec /\ [][NextSweep]_vars

\* concurrent leaveRoom calls over the database
SpecLeaves == InitClientSpec /\ [][NextLeaves]_vars

\* concurrent leaveRoom and joinRoom calls over the database
SpecLeaveJoin == InitClientSpec /\ [][NextLeaveJoin]_vars

\* the host's client and the repository
SpecHost == InitClientSpec /\ [][NextHost]_vars

\* clients, the clock and the sweep over the database
SpecSession == InitClientSpec /\ [][NextSession]_vars

\* the timer of an empty room fires once its delay has passed
FairSpec == Spec /\ \A roomId \in RoomIds : WF_vars(RoomCleanupTimeout(roomId))

\* ------------------------------------------------ the room, as a client sees it
Exists(r) == IF backend = "store" THEN r \in DOMAIN rooms ELSE r \in DOMAIN dbRooms
\* the Room object of GET /api/rooms/[roomId]; defined when the room exists
Room(r) == IF backend = "store" THEN rooms[r] ELSE getRoom(r)
Members(r) == Room(r).users
Hosts(r) == {i \in 1..Len(Members(r)) : Members(r)[i].isHost}
HostCount(r) == Cardinality(Hosts(r))
IsMember(r, u) == Exists(r) /\ \E i \in 1..Len(Members(r)) : Members(r)[i].id = u
IsHost(r, u) ==
  Exists(r) /\ \E i \in 1..Len(Members(r)) : Members(r)[i].id = u /\ Members(r)[i].isHost
PostLeave(r, u) == StorePostLeave(r, u) \/ DbPostLeave(r, u)
PostJoin(r, u) == StorePostJoin(r, u) \/ DbPostJoin(r, u)
PostUpdateVideo(r, v) == StorePostUpdateVideo(r, v) \/ DbPostUpdateVideo(r, v)
PostUpdateState(r, p, t) ==
  StorePostUpdateState(r, p, t) \/ DbPostUpdateState(r, p, t)

\* C1: in every reachable state, a room with at least one member has at most
\* one member whose host flag is true.
C1_AtMostOneHost ==
  \A r \in RoomIds : (Exists(r) /\ Len(Members(r)) > 0) => HostCount(r) <= 1

\* a leave promoted a member that is not the first of the remaining ones
C1_Witness ==
  \E r \in RoomIds :
    /\ Exists(r) /\ response.action = "leave"
    /\ Len(Members(r)) >= 2 /\ HostCount(r) = 1 /\ ~Members(r)[1].isHost

\* C2: after every completed createRoom, joinRoom or leaveRoom call, a room
\* with at least one member has exactly one host.
C2_ExactlyOneHost ==
  \A r \in RoomIds : (Exists(r) /\ Len(Members(r)) > 0) => HostCount(r) = 1

\* C3: an updateState request of a client u that is not the room's host is
\* answered with Forbidden (403) and leaves isPlaying and position unchanged.
\* The request names no sender, so every client can have sent it.
C3_NonHostUpdateStateForbidden ==
  [][\A r \in RoomIds, u \in UserIds, p \in BOOLEAN, t \in Positions :
       (response'.action = "updateState" /\ Exists(r) /\ ~IsHost(r, u)
          /\ PostUpdateState(r, p, t))
         => /\ response'.status = 403
            /\ Room(r)'.isPlaying = Room(r).isPlaying
            /\ Room(r)'.currentTime = Room(r).currentTime]_vars

\* C4: when leaveRoom removes the host and members remain, the new host is
\* the remaining member that joined first (Members is in join order).
C4_EarliestJoinedPromoted ==
  [][\A r \in RoomIds, u \in UserIds :
       (response'.action = "leave" /\ IsHost(r, u) /\ Len(Members(r)) >= 2
          /\ PostLeave(r, u))
         => (Hosts(r))' = {1}]_vars

\* C5: a room never holds two member entries with the same userId, and a
\* joinRoom by a userId that is already a member leaves the member count
\* unchanged.
C5_NoDuplicateMembers ==
  /\ [](\A r \in RoomIds :
          Exists(r) =>
            \A i, j \in 1..Len(Members(r)) :
              Members(r)[i].id = Members(r)[j].id => i = j)
  /\ [][\A r \in RoomIds, u \in UserIds :
          (response'.action = "join" /\ IsMember(r, u) /\ PostJoin(r, u))
            => Len((Members(r))') = Len(Members(r))]_vars

\* the host re-joined a room of the repository that has other members
C5_Witness ==
  \E r \in RoomIds :
    /\ backend = "db" /\ Exists(r)
    /\ response.action = "join" /\ response.status = 200
    /\ Len(Members(r)) >= 2 /\ HostCount(r) = 0

SameReference(a, b) ==
  /\ a.id = b.id /\ a.title = b.title /\ a.type = b.type /\ a.url = b.url

C7_GraceThenRejoin ==
  /\ [](\A r \in RoomIds :
          r \in roomCleanupTimers
            => (r \in DOMAIN rooms /\ Len(rooms[r].users) = 0))
  /\ [][\A r \in RoomIds :
          /\ \A u \in UserIds :
               (response'.action = "leave" /\ r \in DOMAIN rooms
                  /\ StorePostLeave(r, u))
                 => r \in DOMAIN rooms'
          /\ \A u \in UserIds :
               (response'.action = "join" /\ r \in DOMAIN rooms
                  /\ StorePostJoin(r, u))
                 => /\ r \notin roomCleanupTimers'
                    /\ rooms'[r].currentVideo = rooms[r].currentVideo
                    /\ Len(rooms'[r].users) > 0
          /\ (r \in DOMAIN rooms /\ Len(rooms[r].users) > 0)
               => r \in DOMAIN rooms']_vars

\* the grace period: the last member left a room that has a video
C7_Witness ==
  \E r \in RoomIds :
    /\ backend = "store" /\ r \in DOMAIN rooms
    /\ response.action = "leave"
    /\ Len(rooms[r].users) = 0 /\ r \in roomCleanupTimers
    /\ rooms[r].currentVideo # NoVideo

\* C8: a RoomStore room with zero members is eventually deleted unless a
\* user joins it again.
C8_EmptyRoomEventuallyDeleted ==
  \A r \in RoomIds :
    (backend = "store" /\ r \in DOMAIN rooms /\ Len(rooms[r].users) = 0)
      ~> (r \notin DOMAIN rooms \/ Len(rooms[r].users) > 0)

\* C9: DatabaseService.leaveRoom of the last member returns null and the
\* room still exists when the call returns.
C9_LastLeaveKeepsRoom ==
  [][\A r \in RoomIds, u \in UserIds :
       (response'.action = "leave" /\ Exists(r) /\ IsMember(r, u)
          /\ Len(Members(r)) = 1 /\ DbPostLeave(r, u))
         => (response'.room = FALSE /\ (Exists(r))')]_vars

\* the thresholds of the specification, in seconds
SpecThreshold(type, isMobile) ==
  IF type = "youtube"
    THEN (IF isMobile THEN 3 ELSE 2)
    ELSE (IF isMobile THEN 4 ELSE 2)

Drift == Abs(element.currentTime - props.currentTime)

SpecInterval(isMobile) == IF isMobile THEN 2 ELSE 1

\* the viewer has a playback position to compare: a <video> element, or a
\* YouTube player that has reported ready
Observed ==
  \/ props.video = "local"
  \/ props.video = "youtube" /\ player.youtubeRef /\ player.isReady

\* the element is in a seek, or the scroll-debounce window is open
InGesture == element.seeking \/ player.isScrolling

\* a mobile viewer whose raw-file element is buffering
MobileBuffering == props.video = "local" /\ player.isMobile /\ element.readyState < 2

\* C11: a viewer's syncVideo tick that runs with drift above the threshold,
\* with no seek or scroll gesture and no mobile buffering, and with the sync
\* interval elapsed, issues exactly one seek, to the authoritative position.
C11_OneSeekAboveThreshold ==
  [][(SyncVideo /\ Observed
        /\ Drift > SpecThreshold(props.video, player.isMobile)
        /\ ~InGesture /\ ~MobileBuffering
        /\ sinceLastSync >= SpecInterval(player.isMobile))
       => /\ commands'.seeks = <<props.currentTime>>
          /\ element'.currentTime = props.currentTime]_vars

\* a desktop viewer of a YouTube video was moved from 2 to 5 by one seek
C11_Witness ==
  /\ commands.ran /\ commands.seeks = <<5>>
  /\ props.video = "youtube" /\ ~player.isMobile /\ ~props.isHost
  /\ props.currentTime = 5 /\ element.currentTime = 5 /\ sinceLastSync = 0

\* C12: for youtube and local sources, a syncVideo tick that runs while the
\* element is seeking or while the scroll-debounce window is open issues no
\* seek.
C12_NoSeekDuringGesture ==
  [][(SyncVideo /\ props.video \in {"youtube", "local"} /\ InGesture)
       => commands'.seeks = <<>>]_vars

\* C13: on a mobile viewer of a raw file whose element is buffering, a
\* syncVideo tick (interval elapsed, no gesture) issues no seek, issues play
\* when the room plays and the element is paused, and issues pause when the
\* room is paused and the element plays.
C13_BufferingStillReconcilesPlayPause ==
  [][(SyncVideo /\ MobileBuffering /\ ~InGesture
        /\ sinceLastSync >= SpecInterval(player.isMobile))
       => /\ commands'.seeks = <<>>
          /\ wantsPlay(props.isPlaying, element.paused) => commands'.play
          /\ wantsPause(props.isPlaying, element.paused) => commands'.pause]_vars

\* C14: while the video is a movie or tv embed, no step of the component
\* issues a seek, a play or a pause, and none pushes a playback state.
C14_EmbedsNotSynchronized ==
  [][props'.video \in {"movie", "tv"}
       => /\ commands'.seeks = <<>>
          /\ ~commands'.play /\ ~commands'.pause /\ ~commands'.push]_vars

\* a viewer's tick ran on a movie embed while the room plays at position 5
C14_Witness ==
  /\ props.video = "movie" /\ ~props.isHost /\ commands.ran
  /\ props.isPlaying /\ props.currentTime = 5 /\ element.currentTime = 0

\* C15: once leaveRoom has completed after a joinRoom, the client has no
\* polling interval, no pending subscribeTimeout, no pending delayed connect
\* and no open subscription, and no step of it sends a request other than
\* the leave itself.
C15_LeaveStopsEverything ==
  (client.left /\ client.joins > 0)
    => /\ ~client.polling
       /\ client.connectTimers = 0
       /\ \A c \in ChannelIds :
            /\ channels[c].timeout # "pending"
            /\ channels[c].status \in {"none", "unsubscribed"}
       /\ sent \in {<<>>, <<"leave">>}

\* C16: when a subscribeTimeout fires, or CLOSED / TIMED_OUT arrives while
\* it is pending, polling is on afterwards; the poll tick fetches room and
\* messages; and polling goes off only in leaveRoom or at unmount, whatever
\* status arrives later.
C16_PollingFallbackPersists ==
  [][/\ \A c \in ChannelIds :
          (channels[c].timeout = "pending" /\ channels'[c].timeout = "fired")
            => client'.polling
     /\ \A c \in ChannelIds :
          (channels[c].timeout = "pending" /\ channels'[c].timeout = "cleared"
             /\ channels'[c].status \in {"CLOSED", "TIMED_OUT"})
            => client'.polling
     /\ (client.polling /\ client'.polling /\ PollTick)
          => sent' = <<"room", "chat">>
     /\ (client.polling /\ ~client'.polling)
          => ((\E ok \in BOOLEAN : LeaveRoom(ok)) \/ Unmount)]_vars

\* SUBSCRIBED came after the subscribeTimeout had fired, and the client
\* polled again
C16_Witness ==
  \E c \in ChannelIds :
    /\ client.channelRef = c /\ client.mounted /\ ~client.left
    /\ channels[c].timeout = "fired" /\ channels[c].status = "SUBSCRIBED"
    /\ client.polling /\ sent = <<"room", "chat">>

\* C17: when the channel of a mounted client that is in the room goes from
\* SUBSCRIBED to CLOSED, TIMED_OUT or CHANNEL_ERROR, polling is on afterwards.
C17_FailedStatusStartsPolling ==
  [][\A c \in ChannelIds, status \in {"CLOSED", "TIMED_OUT", "CHANNEL_ERROR"} :
       (channels[c].status = "SUBSCRIBED" /\ client.channelRef = c
          /\ client.mounted /\ client.inRoom /\ SubscribeStatus(c, status))
         => client'.polling]_vars

\* min(2 s * 2^(n-1), 30 s), in milliseconds
SpecDelay(n) == Min(2000 * 2 ^ (n - 1), 30000)

\* C18: the delay scheduled for the n-th consecutive reconnection attempt
\* is min(2 s * 2^(n-1), 30 s).
C18_BackoffDelays ==
  [][sse'.attempts = sse.attempts + 1 => sse'.delay = SpecDelay(sse'.attempts)]_vars

\* C19: at most 5 reconnection attempts are made without a successful
\* connection or a manual retry in between.
C19_AtMostFiveAttempts == sse.attempts <= 5

PostCreate(r, u) == StorePostCreate(r, u) \/ DbPostCreate(r, u)

\* C20: createRoom on a roomId that exists with members answers Conflict
\* (409) and leaves the room as it was; on an unused roomId it creates the
\* room with the given user as its only member and as host.
C20_CreateConflictOrCreate ==
  [][\A r \in RoomIds, u \in UserIds :
       (response'.action = "create" /\ PostCreate(r, u))
         => /\ (Exists(r) /\ Len(Members(r)) > 0)
                 => (response'.status = 409 /\ (Exists(r))' /\ (Room(r))' = Room(r))
            /\ ~Exists(r)
                 => ((Exists(r))' /\ (Members(r))' = <<User(u, TRUE)>>)]_vars

\* C21: a join of a roomId for which no room exists fails with NotFound and
\* creates neither a room nor a member row; a room that did not exist comes
\* into existence only through createRoom
C21_JoinAbsentRoomNotFound ==
  /\ [][\A r \in RoomIds :
         (~Exists(r) /\ response'.action \in {"join", "events"}) =>
            /\ response'.status = 404
            /\ ~(Exists(r))'
            /\ room_users' = room_users]_vars
  /\ [][\A r \in RoomIds :
         (~Exists(r) /\ (Exists(r))') => response'.action = "create"]_vars

\* C22: promoteUser and demoteUser are answered Forbidden when the acting user
\* is not the host, and succeed, returning the room with the host flag of the
\* target changed, when the acting user is the host
C22_PromoteDemoteHostOnly ==
  [][\A r \in RoomIds : \A u \in UserIds :
       (/\ response'.action \in OtherActions
        /\ IsMember(r, u)
        /\ \E a \in OtherActions : StorePostDefault(r, a) \/ DbPostDefault(r, a)) =>
          IF IsHost(r, u)
            THEN response'.status = 200 /\ response'.room
            ELSE response'.status = 403]_vars

\* C28: a failed delete in the media store never makes updateVideo fail (the
\* video is replaced, the playback state reset, the room returned), nor the
\* leaveRoom that deletes the emptied room (the room is gone, the answer is
\* the normal one)
C28_CleanupFailureSwallowed ==
  /\ [][\A r \in RoomIds : \A v \in Videos \cup {NoVideo} :
         (/\ response'.action = "updateVideo"
          /\ response'.cleanupError
          /\ DbPostUpdateVideo(r, v)) =>
            /\ response'.status = 200
            /\ response'.room
            /\ (Exists(r))'
            /\ (Room(r).isPlaying = FALSE)'
            /\ (Room(r).currentTime = 0)'
            /\ (Room(r).currentVideo.id = IF v = NoVideo THEN Null ELSE v.id)']_vars
  /\ [][\A r \in RoomIds :
         (response'.action = "leave" /\ response'.cleanupError) =>
            /\ ~(Exists(r))'
            /\ response'.status = 200
            /\ ~response'.room]_vars

\* updateVideo answered 200 with the replacement although the delete failed
C28_Witness ==
  /\ response.action = "updateVideo"
  /\ response.cleanupError
  /\ response.status = 200
  /\ \E r \in RoomIds : Exists(r) /\ Room(r).currentVideo.id = VMovie.id

\* a tick of syncVideo that changed the player: a seek, a play or a pause
Corrects(c) == c.seeks # <<>> \/ c.play \/ c.pause

\* C29: two ticks of syncVideo of one viewer that apply a correction are at
\* least one sync interval apart (1 s on desktop, 2 s on mobile): a tick that
\* corrects restarts the interval, and a tick corrects only when a whole
\* interval has passed since the last restart
C29_CorrectionsOneIntervalApart ==
  /\ [][(Corrects(commands') /\ SyncVideo) =>
          sinceLastSync >= SpecInterval(player.isMobile)]_vars
  /\ [][(Corrects(commands') /\ SyncVideo) => sinceLastSync' = 0]_vars

\* a mobile viewer whose tick has just paused a player that an earlier
\* correction had started
C29_Witness ==
  /\ player.isMobile
  /\ ~props.isHost
  /\ commands.ran /\ commands.pause
  /\ sinceLastSync = 0

\* the rows of chat_messages of the room of the last getMessages
FetchedRoomRows ==
  {chat_messages[i] : i \in {j \in 1..Len(chat_messages) :
                               chat_messages[j].room_id = fetched.roomId}}
FetchedIds == {fetched.messages[i].id : i \in 1..Len(fetched.messages)}

\* C23: getMessages(roomId, limit) returns at most limit messages, all of
\* them messages of that room and none twice, as many as limit or as the room
\* has; no message of the room that was left out is more recent than one that
\* was returned; and the messages come in ascending order of timestamp
C23_MostRecentAscending ==
  fetched.action = "get" =>
    /\ Len(fetched.messages) = Min(fetched.limit, Cardinality(FetchedRoomRows))
    /\ Cardinality(FetchedIds) = Len(fetched.messages)
    /\ \A i \in 1..Len(fetched.messages) :
         \E row \in FetchedRoomRows :
           /\ row.id = fetched.messages[i].id
           /\ row.created_at \div 2 = fetched.messages[i].timestamp
    /\ \A x, y \in FetchedRoomRows :
         (x.id \in FetchedIds /\ y.id \notin FetchedIds) => y.created_at <= x.created_at
    /\ \A i, j \in 1..Len(fetched.messages) :
         i < j => fetched.messages[i].timestamp <= fetched.messages[j].timestamp

\* three messages of one room stored newest first, a message of another room
\* between them, and a fetch of the two most recent
C23_Witness ==
  /\ fetched.action = "get" /\ fetched.limit = 2 /\ Len(fetched.messages) = 2
  /\ Cardinality(FetchedRoomRows) = 3
  /\ Len(chat_messages) = 4
  /\ chat_messages[1].created_at > chat_messages[4].created_at
  /\ chat_messages[1].room_id = fetched.roomId /\ chat_messages[4].room_id = fetched.roomId
  /\ fetched.messages[1].timestamp < fetched.messages[2].timestamp

\* C24: getMessages of ChatStore returns at most 100 messages, exactly the
\* most recently added ones of the room in the order they were added, and
\* adding a message to one room does not change the messages of another
C24_LastHundredInOrder ==
  /\ [](\A r \in ChatRoomIds :
          LET m == ChatStore_getMessages(r)
          IN /\ Len(m) = Min(added[r], 100)
             /\ \A i \in 1..Len(m) : m[i] = added[r] - Len(m) + i)
  /\ [][\A r, other \in ChatRoomIds :
         (r # other /\ ChatStore_addMessage(r)) =>
            (ChatStore_getMessages(other))' = ChatStore_getMessages(other)]_vars

\* a room that was added more than 100 messages while another room has some
C24_Witness ==
  /\ added["r1"] > 100
  /\ Len(ChatStore_getMessages("r1")) = 100
  /\ ChatStore_getMessages("r1")[1] = added["r1"] - 99
  /\ added["r2"] > 0

\* C30: the cleanup timer of the 30-second store deletes a room only when
\* the room has no member: a room that has a member is never deleted,
\* whatever joinRoom, leaveRoom and stream cleanups came before
C30_RoomWithMemberNeverDeleted ==
  [][\A r \in RoomIds :
       (r \in DOMAIN rooms30 /\ r \notin DOMAIN rooms30') =>
          Len(rooms30[r].users) = 0]_vars

\* the member of the row is still a member after the step
StillMember(row) ==
  \E j \in 1..Len(room_users') :
    room_users'[j].room_id = row.room_id /\ room_users'[j].user_id = row.user_id

\* C25: after the inactivity sweep no room that exists has a member whose
\* last_active is more than 30 minutes old, and the sweep removed no member
\* whose last_active was within the last 30 minutes
C25_SweepRemovesExactlyInactive ==
  [][(response'.action = "cleanup" /\ CleanupPost) =>
       /\ \A j \in 1..Len(room_users') :
            /\ room_users'[j].room_id \in DOMAIN dbRooms'
            /\ room_users'[j].last_active >= now - ThirtyMinutes
       /\ \A i \in 1..Len(room_users) :
            room_users[i].last_active >= now - ThirtyMinutes => StillMember(room_users[i])]_vars

\* a sweep removed one member and kept another, who was last active exactly
\* 30 minutes before
C25_Witness ==
  /\ response.action = "cleanup"
  /\ response.inactiveUsersRemoved = 1
  /\ \E i \in 1..Len(room_users) : room_users[i].last_active = now - ThirtyMinutes

\* C26: a client has at most one request for the room state outstanding: a
\* polling tick or a change notification that arrives while a fetch of
\* refetchRoomData is in flight starts no other one
C26_OneRoomRequestOutstanding == client.fetching <= 1

\* C27: isConnected is true only if a snapshot of the room was fetched
\* successfully, by the events request, a poll or a refetch after a change
\* notification, since the client joined
C27_ConnectedOnlyAfterSnapshot == client.isConnected => client.snapshot

\* C32: a viewer (isHost false) never writes playback state: no media event
\* on a viewer's element, its own corrective seek, play or pause included,
\* raises onStateChange, so no updateState request leaves the client.
C32_ViewerNeverWritesState ==
  [][~props.isHost => ~commands'.push]_vars

\* a media event was handled on a viewer's element
C32_Witness ==
  /\ ~props.isHost
  /\ commands.event
  /\ ~commands.push

\* C35: after any sequence of updateVideo calls, a room whose current video
\* is local references a media resource the service has not deleted, also
\* when updateVideo is repeated with the video the room already references.
C35_LocalVideoResourceKept ==
  \A roomId \in RoomIds :
    (backend = "db" /\ HasLocalVideo(roomId))
      => getRoom(roomId).currentVideo.url \in blobs

\* C33: under any interleaving of the reads and writes of concurrent
\* DatabaseService.leaveRoom calls on one room, the room never has two
\* members with host=true.
C33_NeverTwoHosts ==
  \A roomId \in RoomIds :
    Cardinality({i \in 1..Len(room_users) :
                   room_users[i].room_id = roomId /\ room_users[i].is_host}) < 2

\* C38: under any interleaving of a leaveRoom by a room's last member with a
\* joinRoom by another user, a joinRoom that returned a room leaves that user
\* a member of a room that still exists: a room is deleted only when no user
\* whose joinRoom returned it is a member at the moment of deletion.
C38_JoinedRoomNotDeleted ==
  [][\A roomId \in RoomIds, c \in CallIds :
       (/\ roomId \in DOMAIN dbRooms /\ roomId \notin DOMAIN dbRooms'
        /\ calls[c].op = "joinRoom" /\ calls[c].pc = "done" /\ calls[c].result
        /\ calls[c].roomId = roomId
        /\ \E d \in CallIds :
             /\ calls[d].op = "leaveRoom" /\ calls[d].pc = "finish"
             /\ calls'[d].pc = "done" /\ calls[d].userId # calls[c].userId)
         => ~\E i \in 1..Len(room_users) :
               /\ room_users[i].room_id = roomId
               /\ room_users[i].user_id = calls[c].userId]_vars

\* C34: once updateVideo has replaced the video, an updateState request that
\* the host sent for the previous video and that is applied afterwards does
\* not change the room's playback state.
C34_StaleUpdateStateIgnored ==
  [][\A roomId \in RoomIds, req \in requests :
       (/\ requests' = requests \ {req}
        /\ roomId \in DOMAIN dbRooms
        /\ req.video # dbRooms[roomId].current_video_id)
         => /\ dbRooms'[roomId].is_playing = dbRooms[roomId].is_playing
            /\ dbRooms'[roomId].current_position = dbRooms[roomId].current_position]_vars

\* C36: once changes to the room have stopped and every notification has
\* been delivered and every fetch it started has completed, the client's
\* room snapshot equals the repository's current state.
C36_SnapshotCatchesUp ==
  \A roomId \in RoomIds :
    (/\ snapshot.room
     /\ requests = {}
     /\ notifications = 0
     /\ fetches = <<>>)
      => snapshot = RoomState(roomId)

\* C39: after a client's leave request has been applied, that user is not a
\* member again and no room is created in its name unless the client calls
\* joinRoom again, whenever the connect step scheduled by the earlier
\* joinRoom runs.
C39_LeftStaysOut ==
  \A userId \in UserIds :
    sessions[userId].left
      => ~\E i \in 1..Len(room_users) : room_users[i].user_id = userId

\* C37: a member whose client is still connected to the room is never
\* removed by the inactivity sweep, however long the client stays.
C37_ConnectedNeverSwept ==
  [][(response'.action = "cleanup" /\ sessions' = sessions /\ now' = now)
       => \A userId \in UserIds :
            (/\ sessions[userId].open
             /\ \E i \in 1..Len(room_users) : room_users[i].user_id = userId)
              => \E i \in 1..Len(room_users') : room_users'[i].user_id = userId]_vars

\* C31: if the host's last playback update is a pause and the tuple then
\* stays unchanged, a viewer of a synchronizable source on which no guard
\* stays active is eventually paused with drift within its threshold,
\* whenever that update reaches it relative to its previous sync tick.
C31_ViewerEventuallyPaused ==
  (/\ <>[][props' = props /\ player' = player]_<<props, player>>
   /\ <>[](/\ ~props.isHost
           /\ ~props.isPlaying
           /\ \/ props.video = "youtube" /\ player.youtubeRef /\ player.isReady
              \/ props.video = "local"
           /\ ~localGuard(element, player.isMobile, player.isScrolling)))
    => <>[](/\ element.paused
            /\ Abs(element.currentTime - props.currentTime)
                 <= IF props.video = "youtube"
                      THEN youtubeSyncThreshold(player.isMobile)
                      ELSE localSyncThreshold(player.isMobile))
====
